---------------------------- MODULE Spec2Model ----------------------------
(***************************************************************************)
(* A model of the circuit-transformation core of quantum-cli-sdk:          *)
(*   - commands/optimize.py : parse_qasm, circuit_to_qasm, optimize_circuit,*)
(*     estimate_circuit_depth, cancel_adjacent_gates and the no-op hooks;  *)
(*   - transpiler.py        : TranspilerStage, TranspilerPipeline,         *)
(*     PassManager and the module-level manager.                           *)
(*                                                                         *)
(* OpenQASM text is a sequence of tokens.  A token is a maximal run of     *)
(* word characters [a-zA-Z0-9_] (one string), or one single other          *)
(* character.  The regular expressions of parse_qasm are translated on     *)
(* that level: every pattern of the parser begins with a word and every    *)
(* repetition in it is bounded by a single character, so a leftmost match  *)
(* begins and ends on token boundaries.                                    *)
(***************************************************************************)
EXTENDS Integers, Sequences, FiniteSets, TLC

VARIABLES
    \* ---- commands/optimize.py: the text pipeline
    source,      \* content of the source file handed to parse_qasm
    parsed,      \* what parse_qasm(source) returned
    qasm,        \* what circuit_to_qasm(parsed) returned
    reparsed,    \* what parse_qasm returned for the text in qasm
    qpc,         \* position of the text pipeline
    \* ---- commands/optimize.py: the optimization engine
    circuit,            \* the circuit dict the caller holds
    given,              \* that dict's content at the time of the call
    optimization_level, \* 0..3
    target_depth,       \* <<>> for None, <<n>> for the int n
    outcome,            \* the last call of the engine and how it ended
    call_args,          \* the arguments and surroundings of optimize()
    written,            \* the files optimize() wrote, in the order written
    \* ---- transpiler.py
    pass_classes,       \* _pass_manager.pass_classes: dict name -> class
    pipeline_templates, \* _pass_manager.pipeline_templates: dict name -> pipeline
    pipelines,          \* the TranspilerPipeline objects, by identity
    stages,             \* the TranspilerStage objects, by identity
    instances,          \* the pass instances, by identity
    origin,             \* history: how each pipeline object came to be
    ret,                \* the last call into the transpiler and how it ended
    calls               \* number of calls made so far

qasmVars == <<source, parsed, qasm, reparsed, qpc>>

optVars == <<circuit, given, optimization_level, target_depth, outcome,
            call_args, written>>

passVars == <<pass_classes, pipeline_templates, pipelines, stages, instances,
              origin, ret, calls>>

vars == <<source, parsed, qasm, reparsed, qpc,
          circuit, given, optimization_level, target_depth, outcome,
          call_args, written,
          pass_classes, pipeline_templates, pipelines, stages, instances,
          origin, ret, calls>>

\* A version of None (no match of the header pattern); a matched version is
\* never empty.
NoVersion == <<>>

\* parse_qasm's None (the except branch).
NoIR == [none |-> TRUE]

\* ------------------------------------------------------------------------
\* Tokens
\* ------------------------------------------------------------------------

\* \s of the re module, as far as the inputs have it.
SpaceToks == {" ", "\n"}

\* Single characters outside [a-zA-Z0-9_] and \s.
PunctToks == {";", "\"", "(", ")", "[", "]", "{", "}", ",", ".", "-", ">", "/"}

IsSpace(t) == t \in SpaceToks

\* [a-zA-Z0-9_]+ and \w+ : a whole word token.
IsWord(t) == t \notin (SpaceToks \cup PunctToks)

\* int(size) of the digit strings the inputs use.
IntOfStr == [t \in {"0", "1", "2", "02", "5"} |->
               CASE t = "0" -> 0 [] t = "1" -> 1 [] t = "2" -> 2
                 [] t = "02" -> 2 [] t = "5" -> 5]

\* \d+ : a word token made of digits only.
IsDigits(t) == t \in DOMAIN IntOfStr

\* str(size) as the f-strings of circuit_to_qasm format an int.
StrOfInt(n) == CASE n = 0 -> "0" [] n = 1 -> "1" [] n = 2 -> "2" [] n = 5 -> "5"

Min(S) == CHOOSE x \in S : \A y \in S : x <= y
Max(S) == CHOOSE x \in S : \A y \in S : x >= y

Range(s) == {s[i] : i \in 1..Len(s)}

\* First index k >= i with s[k] = t, 0 when there is none.
FindTok(s, i, t) ==
    LET S == {k \in i..Len(s) : s[k] = t}
    IN  IF S = {} THEN 0 ELSE Min(S)

\* First index k >= i that holds no whitespace (Len(s)+1 at the end).
SkipSpaces(s, i) ==
    LET S == {k \in i..Len(s) : ~IsSpace(s[k])}
    IN  IF S = {} THEN Len(s) + 1 ELSE Min(S)

Slice(s, i, j) == IF j < i THEN <<>> ELSE SubSeq(s, i, j)

\* str.strip()
Strip(s) ==
    LET S == {k \in 1..Len(s) : ~IsSpace(s[k])}
    IN  IF S = {} THEN <<>> ELSE SubSeq(s, Min(S), Max(S))

RECURSIVE Concat(_)
Concat(ss) == IF ss = <<>> THEN <<>> ELSE Head(ss) \o Concat(Tail(ss))

\* '\n'.join(lines)
RECURSIVE JoinLines(_)
JoinLines(lines) ==
    IF lines = <<>> THEN <<>>
    ELSE IF Len(lines) = 1 THEN lines[1]
    ELSE lines[1] \o <<"\n">> \o JoinLines(Tail(lines))

SeqsUpTo(S, n) == UNION {[1..k -> S] : k \in 0..n}

NoMatch == [ok |-> FALSE, end |-> 0]

\* ------------------------------------------------------------------------
\* parse_qasm's patterns, matched at token i of s
\* ------------------------------------------------------------------------

\* r'OPENQASM\s+(\d+\.\d+);'
MatchVersion(s, i) ==
    LET k == SkipSpaces(s, i + 1)
    IN  IF /\ s[i] = "OPENQASM"
           /\ k > i + 1
           /\ k + 3 <= Len(s)
           /\ IsDigits(s[k])
           /\ s[k + 1] = "."
           /\ IsDigits(s[k + 2])
           /\ s[k + 3] = ";"
        THEN [ok |-> TRUE, end |-> k + 3, val |-> <<s[k], ".", s[k + 2]>>]
        ELSE NoMatch

\* r'include\s+"([^"]+)";'
MatchInclude(s, i) ==
    LET k == SkipSpaces(s, i + 1)
        c == FindTok(s, k + 1, "\"")
    IN  IF /\ s[i] = "include"
           /\ k > i + 1
           /\ k <= Len(s)
           /\ s[k] = "\""
           /\ c > k + 1
           /\ c + 1 <= Len(s)
           /\ s[c + 1] = ";"
        THEN [ok |-> TRUE, end |-> c + 1, val |-> SubSeq(s, k + 1, c - 1)]
        ELSE NoMatch

\* r'qreg\s+(\w+)\[(\d+)\];' and r'creg\s+(\w+)\[(\d+)\];'
MatchReg(kw, s, i) ==
    LET k == SkipSpaces(s, i + 1)
    IN  IF /\ s[i] = kw
           /\ k > i + 1
           /\ k + 4 <= Len(s)
           /\ IsWord(s[k])
           /\ s[k + 1] = "["
           /\ IsDigits(s[k + 2])
           /\ s[k + 3] = "]"
           /\ s[k + 4] = ";"
        THEN [ok |-> TRUE, end |-> k + 4, val |-> <<s[k], s[k + 2]>>]
        ELSE NoMatch

\* r'gate\s+(\w+)\s+([^{]+){([^}]+)}'
\* \s+ after the name is greedy; when the brace follows the whitespace at once,
\* it gives its last character back to [^{]+.
MatchGate(s, i) ==
    LET k == SkipSpaces(s, i + 1)
        m == SkipSpaces(s, k + 1)
        b == FindTok(s, m, "{")
        e == FindTok(s, b + 1, "}")
    IN  IF /\ s[i] = "gate"
           /\ k > i + 1
           /\ k <= Len(s)
           /\ IsWord(s[k])
           /\ m > k + 1
           /\ b # 0
           /\ (b = m => m > k + 2)
           /\ e > b + 1
        THEN [ok |-> TRUE, end |-> e,
              val |-> [name   |-> s[k],
                       params |-> IF b = m THEN <<s[m - 1]>> ELSE SubSeq(s, m, b - 1),
                       body   |-> SubSeq(s, b + 1, e - 1)]]
        ELSE NoMatch

\* operation_pattern = r'([a-zA-Z0-9_]+)(?:\(([^)]*)\))?\s+([^;]+);'
\* The optional group is tried first: with "(" after the name, the parameters
\* run to the first ")".  \s+ is greedy; when ";" follows the whitespace at
\* once, it gives its last character back to [^;]+.
MatchOp(s, i) ==
    LET hasPar == i + 1 <= Len(s) /\ s[i + 1] = "("
        r == IF hasPar THEN FindTok(s, i + 2, ")") ELSE 0
        j == IF hasPar THEN r + 1 ELSE i + 1
        k == SkipSpaces(s, j)
        e == FindTok(s, k, ";")
    IN  IF /\ IsWord(s[i])
           /\ (hasPar => r # 0)
           /\ k > j
           /\ e # 0
           /\ (e = k => k > j + 1)
        THEN [ok |-> TRUE, end |-> e,
              val |-> [name   |-> s[i],
                       params |-> IF hasPar THEN Slice(s, i + 2, r - 1) ELSE <<>>,
                       qubits |-> IF e = k THEN <<s[k - 1]>> ELSE SubSeq(s, k, e - 1)]]
        ELSE NoMatch

MatchAt(kind, s, i) ==
    CASE kind = "version" -> MatchVersion(s, i)
      [] kind = "include" -> MatchInclude(s, i)
      [] kind = "qreg"    -> MatchReg("qreg", s, i)
      [] kind = "creg"    -> MatchReg("creg", s, i)
      [] kind = "gate"    -> MatchGate(s, i)
      [] kind = "op"      -> MatchOp(s, i)

\* re.findall: the leftmost match from i on, then on from its end.
RECURSIVE FindAll(_, _, _)
FindAll(kind, s, i) ==
    IF i > Len(s) THEN <<>>
    ELSE LET m == MatchAt(kind, s, i)
         IN  IF m.ok THEN <<m.val>> \o FindAll(kind, s, m.end + 1)
             ELSE FindAll(kind, s, i + 1)

\* ------------------------------------------------------------------------
\* dict, as the ordered list of its (key, value) items
\* ------------------------------------------------------------------------

DictKeys(d) == {d[i][1] : i \in 1..Len(d)}

\* d[k], for a key of d
DictGet(d, k) == d[CHOOSE i \in 1..Len(d) : d[i][1] = k][2]

\* list(d.values())
DictValues(d) == [i \in 1..Len(d) |-> d[i][2]]

\* d[k] = v : a new key goes last, a known key keeps its place.
DictPut(d, k, v) ==
    IF k \in DictKeys(d)
    THEN [i \in 1..Len(d) |-> IF d[i][1] = k THEN <<k, v>> ELSE d[i]]
    ELSE Append(d, <<k, v>>)

\* {name: int(size) for name, size in matches}
RECURSIVE RegDict(_, _)
RegDict(matches, d) ==
    IF matches = <<>> THEN d
    ELSE RegDict(Tail(matches),
                 DictPut(d, Head(matches)[1], IntOfStr[Head(matches)[2]]))

\* dict == dict : the same items, in any order.
DictEq(a, b) == Range(a) = Range(b)

\* ------------------------------------------------------------------------
\* parse_qasm
\* ------------------------------------------------------------------------

\* the names line 76 filters out of the operations
StatementKeywords == {"qreg", "creg", "include", "OPENQASM", "gate"}

IsOperation(m) == m.name \notin StatementKeywords

ParseGateDef(m) ==
    [name |-> m.name, params |-> Strip(m.params), body |-> Strip(m.body)]

ParseOperation(m) ==
    [name |-> m.name, params |-> m.params, qubits |-> Strip(m.qubits)]

\* the body of the try block, on the content read
ParseContent(content) ==
    LET version_match == FindAll("version", content, 1)
        operations    == FindAll("op", content, 1)
    IN  [version          |-> IF version_match # <<>> THEN version_match[1]
                              ELSE NoVersion,
         includes         |-> FindAll("include", content, 1),
         qregs            |-> RegDict(FindAll("qreg", content, 1), <<>>),
         cregs            |-> RegDict(FindAll("creg", content, 1), <<>>),
         gate_definitions |-> [i \in 1..Len(FindAll("gate", content, 1)) |->
                                  ParseGateDef(FindAll("gate", content, 1)[i])],
         operations       |-> [i \in 1..Len(SelectSeq(operations, IsOperation)) |->
                                  ParseOperation(
                                      SelectSeq(operations, IsOperation)[i])]]

\* A file is [readable, content]; open() or read() raising ends in the except
\* branch, which returns None.
parse_qasm(file) ==
    IF file.readable THEN ParseContent(file.content) ELSE NoIR

\* ------------------------------------------------------------------------
\* circuit_to_qasm
\* ------------------------------------------------------------------------

\* f'{circuit["version"]}' : None formats as the word None.
FormatVersion(v) == IF v = NoVersion THEN <<"None">> ELSE v

IncludeLine(inc) == <<"include", " ", "\"">> \o inc \o <<"\"", ";">>

RegLine(kw, item) == <<kw, " ", item[1], "[", StrOfInt(item[2]), "]", ";">>

QregLine(item) == RegLine("qreg", item)

CregLine(item) == RegLine("creg", item)

GateLines(gate) ==
    <<"gate", " ", gate.name, " ">> \o gate.params \o <<" ", "{", "\n">>
    \o <<" ", " ">> \o gate.body \o <<"\n">>
    \o <<"}">>

OperationLine(op) ==
    <<op.name>>
    \o (IF op.params # <<>> THEN <<"(">> \o op.params \o <<")">> ELSE <<>>)
    \o <<" ">> \o op.qubits \o <<";">>

circuit_to_qasm(c) ==
    JoinLines(<<<<"OPENQASM", " ">> \o FormatVersion(c.version) \o <<";">>>>
              \o [i \in 1..Len(c.includes) |-> IncludeLine(c.includes[i])]
              \o [i \in 1..Len(c.qregs) |-> QregLine(c.qregs[i])]
              \o [i \in 1..Len(c.cregs) |-> CregLine(c.cregs[i])]
              \o [i \in 1..Len(c.gate_definitions) |-> GateLines(c.gate_definitions[i])]
              \o [i \in 1..Len(c.operations) |-> OperationLine(c.operations[i])])

\* ------------------------------------------------------------------------
\* The optimization engine
\* ------------------------------------------------------------------------

\* no exception
NoExc == "none"

\* optimization_stats of a circuit that has none
NoStats == [none |-> TRUE]

\* def get_pass_manager() -> PassManager: the function takes no argument; a
\* call that passes one raises TypeError before the body runs.
get_pass_manager(args) ==
    IF Len(args) = 0
    THEN [raised |-> NoExc, value |-> "_pass_manager"]
    ELSE [raised |-> "TypeError", value |-> "none"]

\* a variant of estimate_circuit_depth that grows as operations are removed
\* (used to test the properties)
estimate_by_removed(c) == (8 - Len(c.operations)) \div 2 + 1

\* len(circuit["operations"]) // 2 + 1
estimate_circuit_depth(c) == Len(c.operations) \div 2 + 1

SelfInverse == {"h", "x", "y", "z"}

\* The loop of cancel_adjacent_gates from index i on: operations i and i+1 are
\* both dropped (skip_next) when they cancel, operation i is kept otherwise.
RECURSIVE CancelFrom(_, _)
CancelFrom(ops, i) ==
    IF i > Len(ops) THEN <<>>
    ELSE IF /\ i < Len(ops)
            /\ ops[i].name = ops[i + 1].name
            /\ ops[i].qubits = ops[i + 1].qubits
            /\ ops[i].name \in SelfInverse
         THEN CancelFrom(ops, i + 2)
         ELSE <<ops[i]>> \o CancelFrom(ops, i + 1)

\* cancellation against the previous operation on the same qubits, wherever
\* it is in the list (a variant of the code, used to test the properties)
RECURSIVE CancelPerQubit(_, _)
CancelPerQubit(done, rest) ==
    IF rest = <<>> THEN done
    ELSE LET op == Head(rest)
             S  == {k \in 1..Len(done) : done[k].qubits = op.qubits}
             k  == IF S = {} THEN 0 ELSE Max(S)
         IN  IF k # 0 /\ done[k].name = op.name /\ op.name \in SelfInverse
             THEN CancelPerQubit(SubSeq(done, 1, k - 1)
                                 \o SubSeq(done, k + 1, Len(done)), Tail(rest))
             ELSE CancelPerQubit(Append(done, op), Tail(rest))

cancel_per_qubit(c) == [c EXCEPT !.operations = CancelPerQubit(<<>>, @)]

\* the loop without the test of the name against ["h", "x", "y", "z"]: any
\* two neighbours of one name on the same qubits are dropped (a variant of
\* the code, used to test the properties)
RECURSIVE CancelAnyFrom(_, _)
CancelAnyFrom(ops, i) ==
    IF i > Len(ops) THEN <<>>
    ELSE IF /\ i < Len(ops)
            /\ ops[i].name = ops[i + 1].name
            /\ ops[i].qubits = ops[i + 1].qubits
         THEN CancelAnyFrom(ops, i + 2)
         ELSE <<ops[i]>> \o CancelAnyFrom(ops, i + 1)

cancel_any_name(c) == [c EXCEPT !.operations = CancelAnyFrom(@, 1)]

\* circuit["operations"] = new_operations; return circuit
cancel_adjacent_gates(c) == [c EXCEPT !.operations = CancelFrom(@, 1)]

\* cancel_adjacent_gates(circuit) on the objects of the caller: the item
\* assignment changes the dict at ref in place, and return circuit hands
\* back that very dict
CancelAdjacentGatesOn(objs, ref) ==
    [objects |-> [objs EXCEPT ![ref] = cancel_adjacent_gates(@)],
     value   |-> ref]

fold_adjoint_gates(c) == c

\* a commutation pass that exchanges the first two operations (a variant of
\* the code, used to test the properties)
commute_first_pair(c) ==
    IF Len(c.operations) < 2 THEN c
    ELSE [c EXCEPT !.operations =
             <<c.operations[2], c.operations[1]>> \o SubSeq(@, 3, Len(@))]

commutation_optimization(c) == c

simplify_gate_sequences(c) == c

depth_optimization(c, depth) == c

template_matching_optimization(c) == c

qubit_remapping_optimization(c, num_qubits) == c

\* Python's truth value of target_depth: None and 0 are false
Truthy(depth) == depth # <<>> /\ depth[1] # 0

\* (reduction / original) * 100 if original > 0 else 0, as an exact fraction
Percentage(reduction, original) ==
    IF original > 0 THEN [num |-> reduction * 100, den |-> original]
    ELSE [num |-> 0, den |-> 1]

\* lines 107-123: the transformations of the level
ApplyLevel(c, num_qubits, depth, level) ==
    LET c1 == IF level >= 1
              THEN fold_adjoint_gates(cancel_adjacent_gates(c))
              ELSE c
        c2 == IF level >= 2
              THEN simplify_gate_sequences(commutation_optimization(c1))
              ELSE c1
        c3 == IF level >= 3
              THEN qubit_remapping_optimization(
                       template_matching_optimization(
                           IF Truthy(depth) THEN depth_optimization(c2, depth)
                           ELSE c2),
                       num_qubits)
              ELSE c2
    IN  c3

\* lines 125-145
WithStats(c, original_operations, original_depth, level) ==
    LET optimized_operations == Len(c.operations)
        optimized_depth      == estimate_circuit_depth(c)
        gate_reduction       == original_operations - optimized_operations
        depth_reduction      == original_depth - optimized_depth
    IN  [c EXCEPT !.optimization_stats =
            [original_gate_count        |-> original_operations,
             optimized_gate_count       |-> optimized_operations,
             gate_reduction             |-> gate_reduction,
             gate_reduction_percentage  |-> Percentage(gate_reduction,
                                                       original_operations),
             original_depth             |-> original_depth,
             optimized_depth            |-> optimized_depth,
             depth_reduction            |-> depth_reduction,
             depth_reduction_percentage |-> Percentage(depth_reduction,
                                                       original_depth),
             optimization_level         |-> level]]

\* the keys of the dict OPTIMIZATION_LEVELS
OPTIMIZATION_LEVELS == {0, 1, 2, 3}

\* optimize_circuit(circuit, num_qubits, target_depth, optimization_level):
\* how the call ends and what the caller's dict holds afterwards.  The dict
\* is changed in place and is the object returned.
optimize_circuit(c, num_qubits, depth, level) ==
    LET original_operations == Len(c.operations)
        original_depth      == estimate_circuit_depth(c)
        pass_manager        == get_pass_manager(<<level>>)
    IN  IF level \notin OPTIMIZATION_LEVELS
        THEN [raised |-> "KeyError", returned |-> FALSE, circuit |-> c]
        ELSE IF pass_manager.raised # NoExc
        THEN [raised |-> pass_manager.raised, returned |-> FALSE, circuit |-> c]
        ELSE [raised   |-> NoExc,
              returned |-> TRUE,
              circuit  |-> WithStats(ApplyLevel(c, num_qubits, depth, level),
                                     original_operations, original_depth, level)]

\* sum(size for _, size in circuit["qregs"].items())
RECURSIVE SumSizes(_)
SumSizes(d) == IF d = <<>> THEN 0 ELSE Head(d)[2] + SumSizes(Tail(d))

\* most operations of one input circuit
MaxOps == 4

Q0 == <<"q", "[", "0", "]">>
Q1 == <<"q", "[", "1", "]">>

InputOps ==
    {[name |-> "h",  params |-> <<>>, qubits |-> Q0],
     [name |-> "h",  params |-> <<>>, qubits |-> Q1],
     [name |-> "x",  params |-> <<>>, qubits |-> Q1],
     [name |-> "cx", params |-> <<>>, qubits |-> Q0 \o <<",">> \o Q1],
     [name |-> "rz", params |-> <<"0", ".", "5">>, qubits |-> Q0]}

\* a circuit as parse_qasm builds it, with the operations given
CircuitOf(ops) ==
    [version          |-> <<"2", ".", "0">>,
     includes         |-> <<<<"qelib1", ".", "inc">>>>,
     qregs            |-> <<<<"q", 2>>>>,
     cregs            |-> <<<<"c", 2>>>>,
     gate_definitions |-> <<>>,
     operations       |-> ops,
     optimization_stats |-> NoStats]

Levels == 0..3

TargetDepths == {<<>>, <<0>>, <<2>>}

NoCall == [call |-> "none", raised |-> NoExc, returned |-> FALSE]

\* optimize() is not in use
NoArgs == [none |-> TRUE]

OptInit ==
    /\ circuit \in {CircuitOf(ops) : ops \in SeqsUpTo(InputOps, MaxOps)}
    /\ given = circuit
    /\ optimization_level \in Levels
    /\ target_depth \in TargetDepths
    /\ outcome = NoCall
    /\ call_args = NoArgs
    /\ written = <<>>

\* optimized_circuit = optimize_circuit(circuit, numqubit, depth, level)
OptimizeCircuit ==
    /\ outcome.call = "none"
    /\ LET r == optimize_circuit(circuit, SumSizes(circuit.qregs), target_depth,
                                 optimization_level)
       IN  /\ circuit' = r.circuit
           /\ outcome' = [call |-> "optimize_circuit", raised |-> r.raised,
                          returned |-> r.returned]
    /\ UNCHANGED <<given, optimization_level, target_depth, call_args,
                   written>>
    /\ UNCHANGED <<qasmVars, passVars>>

\* result = cancel_adjacent_gates(circuit): the caller's dict is object 1,
\* value is the object returned
CancelAdjacentGates ==
    /\ outcome.call = "none"
    /\ LET r == CancelAdjacentGatesOn(<<circuit>>, 1)
       IN  /\ circuit' = r.objects[1]
           /\ outcome' = [call |-> "cancel_adjacent_gates", raised |-> NoExc,
                          returned |-> TRUE, value |-> r.value]
    /\ UNCHANGED <<given, optimization_level, target_depth, call_args,
                   written>>
    /\ UNCHANGED <<qasmVars, passVars>>

\* depth = estimate_circuit_depth(circuit)
EstimateCircuitDepth ==
    /\ outcome.call = "none"
    /\ outcome' = [call |-> "estimate_circuit_depth", raised |-> NoExc,
                   returned |-> TRUE, value |-> estimate_circuit_depth(circuit)]
    /\ UNCHANGED <<circuit, given, optimization_level, target_depth,
                   call_args, written>>
    /\ UNCHANGED <<qasmVars, passVars>>

\* ------------------------------------------------------------------------
\* transpiler.py: pass classes
\* ------------------------------------------------------------------------

\* the four pass classes transpiler.py defines; run returns its circuit
BuiltinClasses ==
    {"GateReduction", "ConstantFolding", "CircuitDepthReduction",
     "QubitMapperPass"}

\* Subclasses of TranspilerPass that a caller supplies:
\*   MarkPass       run adds its name to the circuit it is given, in place,
\*                  and to options, and returns that circuit
\*   CopyPass       run returns a new circuit: a copy with its name added
\*   FailingPass    run raises
\*   AbstractPass   does not define run: it cannot be instantiated
\*   BrokenInitPass __init__ raises
\*   other.MarkPass a class of another module that is also named MarkPass;
\*                  run returns its circuit
UserClasses ==
    {"MarkPass", "CopyPass", "FailingPass", "AbstractPass", "BrokenInitPass",
     "other.MarkPass"}

\* pass_class.__name__: the name of the class without its module
ClassName(cls) == IF cls = "other.MarkPass" THEN "MarkPass" ELSE cls

\* what pass_class(**kwargs) raises, NoExc when it returns an instance:
\* a class with the abstract method run left, or keyword arguments that
\* __init__ does not take, raise TypeError
Construct(cls, kwargs) ==
    IF cls = "AbstractPass" THEN "TypeError"
    ELSE IF cls = "BrokenInitPass" THEN "ValueError"
    ELSE IF kwargs # {} THEN "TypeError"
    ELSE NoExc

\* pass_instance.requires(): the base class returns []; CopyPass overrides
\* it and names MarkPass
Requires(cls) == IF cls = "CopyPass" THEN {"MarkPass"} ELSE {}

\* pass_instance.invalidates(): the base class returns []; MarkPass overrides
\* it and names GateReduction
Invalidates(cls) == IF cls = "MarkPass" THEN {"GateReduction"} ELSE {}

\* no exception object
NoException == [none |-> TRUE]

\* ------------------------------------------------------------------------
\* transpiler.py: TranspilerStage, TranspilerPipeline, PassManager
\* Each operation is given the objects it reads and yields the objects it
\* leaves behind.
\* ------------------------------------------------------------------------

\* TranspilerStage(name, description); a description is a list of string
\* parts, <<>> for None:  description or f"Transpiler stage: {name}"
NewStage(name, description) ==
    [name        |-> name,
     description |-> IF description = <<>> THEN <<"Transpiler stage: ", name>>
                     ELSE description,
     passes      |-> <<>>]

\* TranspilerPipeline(name), "" for None:
\* name or "Quantum Transpiler Pipeline"
NewPipeline(name) ==
    [name   |-> IF name = "" THEN "Quantum Transpiler Pipeline" ELSE name,
     stages |-> <<>>,
     registered_passes |-> <<>>]

\* TranspilerStage.add_pass(pass_instance) on stage sid
AddPass(sts, sid, iid) == [sts EXCEPT ![sid].passes = Append(@, iid)]

\* TranspilerPipeline.create_stage(name, description) on pipeline pid: the
\* new stage is the last of the stages
CreateStage(pls, sts, pid, name, description) ==
    [pipelines |-> [pls EXCEPT ![pid].stages = Append(@, Len(sts) + 1)],
     stages    |-> Append(sts, NewStage(name, description))]

\* a variant of TranspilerPipeline.register_pass with registered_passes a
\* class attribute, one dict shared by all pipelines (used to test the
\* properties)
RegisterInSharedDict(pls, pid, cls) ==
    [q \in 1..Len(pls) |->
        [pls[q] EXCEPT !.registered_passes = DictPut(@, ClassName(cls), cls)]]

\* TranspilerPipeline.register_pass(pass_class) on pipeline pid
PipelineRegisterPass(pls, pid, cls) ==
    [pls EXCEPT ![pid].registered_passes = DictPut(@, ClassName(cls), cls)]

\* TranspilerPipeline.get_pass_class(name): the class, or None (<<>>)
PipelineGetPassClass(pls, pid, name) ==
    IF name \in DictKeys(pls[pid].registered_passes)
    THEN <<DictGet(pls[pid].registered_passes, name)>>
    ELSE <<>>

\* TranspilerPipeline.get_registered_passes()
PipelineGetRegisteredPasses(pls, pid) == DictValues(pls[pid].registered_passes)

\* a variant of PassManager.register_pass that keeps the class a name
\* already stands for (used to test the properties)
ManagerRegisterPassKeepingFirst(pc, cls) ==
    IF ClassName(cls) \in DictKeys(pc) THEN pc
    ELSE DictPut(pc, ClassName(cls), cls)

\* PassManager.register_pass(pass_class)
ManagerRegisterPass(pc, cls) == DictPut(pc, ClassName(cls), cls)

\* PassManager.get_pass_class(name): the class, or None (<<>>)
ManagerGetPassClass(pc, name) ==
    IF name \in DictKeys(pc) THEN <<DictGet(pc, name)>> ELSE <<>>

\* a variant of PassManager.create_pass that calls the constructor outside
\* any try block (used to test the properties)
CreatePassUnguarded(pc, insts, name, kwargs) ==
    LET pass_class == ManagerGetPassClass(pc, name)
    IN  IF pass_class = <<>>
        THEN [raised |-> NoExc, value |-> 0, instances |-> insts]
        ELSE IF Construct(pass_class[1], kwargs) # NoExc
        THEN [raised |-> Construct(pass_class[1], kwargs), value |-> 0,
              instances |-> insts]
        ELSE [raised |-> NoExc, value |-> Len(insts) + 1,
              instances |-> Append(insts, [cls |-> pass_class[1]])]

\* PassManager.create_pass(name, **kwargs): value 0 is None, any other value
\* is the new instance
CreatePass(pc, insts, name, kwargs) ==
    LET pass_class == ManagerGetPassClass(pc, name)
    IN  IF pass_class = <<>>
        THEN [raised |-> NoExc, value |-> 0, instances |-> insts]
        ELSE IF Construct(pass_class[1], kwargs) # NoExc
        THEN [raised |-> NoExc, value |-> 0, instances |-> insts]
        ELSE [raised |-> NoExc, value |-> Len(insts) + 1,
              instances |-> Append(insts, [cls |-> pass_class[1]])]

\* the base classes of transpiler.py: TranspilerPass and the six classes
\* named in the list of load_passes_from_module
BaseClasses ==
    {"TranspilerPass", "OptimizationPass", "MappingPass", "SynthesisPass",
     "AnalysisPass", "TransformationPass", "ErrorMitigationPass"}

\* isinstance(attr, type) and issubclass(attr, TranspilerPass)
IsPassClass(attr) == attr \in BaseClasses \cup BuiltinClasses \cup UserClasses

\* the loop over dir(module): every attribute that is a subclass of
\* TranspilerPass other than the seven base classes is registered and counted
RECURSIVE LoadAttributes(_, _, _)
LoadAttributes(pc, attrs, count) ==
    IF attrs = <<>> THEN [pass_classes |-> pc, count |-> count]
    ELSE IF IsPassClass(Head(attrs)) /\ Head(attrs) \notin BaseClasses
    THEN LoadAttributes(ManagerRegisterPass(pc, Head(attrs)), Tail(attrs),
                        count + 1)
    ELSE LoadAttributes(pc, Tail(attrs), count)

\* PassManager.load_passes_from_module(module_name).  A module is how
\* importlib.import_module(module_name) ends ("ok" or the exception raised)
\* and the values of its attributes in the order of dir(module).
LoadPassesFromModule(pc, mod) ==
    IF mod.import = "ImportError"
    THEN [raised |-> NoExc, value |-> 0, pass_classes |-> pc]
    ELSE IF mod.import # "ok"
    THEN [raised |-> mod.import, value |-> 0, pass_classes |-> pc]
    ELSE LET r == LoadAttributes(pc, mod.attrs, 0)
         IN  [raised |-> NoExc, value |-> r.count,
              pass_classes |-> r.pass_classes]

\* PassManager.get_pipeline_template(name): the pipeline, or None (0)
GetPipelineTemplate(pt, name) ==
    IF name \in DictKeys(pt) THEN DictGet(pt, name) ELSE 0

\* a variant of the loop over template.stages that leaves the passes of the
\* template's stages out of the new stages (used to test the properties)
RECURSIVE CloneStagesBare(_, _)
CloneStagesBare(sts, sids) ==
    IF sids = <<>> THEN <<>>
    ELSE <<NewStage(sts[Head(sids)].name, sts[Head(sids)].description)>>
         \o CloneStagesBare(sts, Tail(sids))

\* the loop over template.stages: a new stage for each, with the passes of
\* the template's stage added one by one
RECURSIVE CloneStages(_, _)
CloneStages(sts, sids) ==
    IF sids = <<>> THEN <<>>
    ELSE <<[NewStage(sts[Head(sids)].name, sts[Head(sids)].description)
               EXCEPT !.passes = sts[Head(sids)].passes]>>
         \o CloneStages(sts, Tail(sids))

\* the loop over template.registered_passes.items():
\* pipeline.register_pass(pass_class) for each
RECURSIVE CopyRegistered(_, _, _)
CopyRegistered(pls, pid, items) ==
    IF items = <<>> THEN pls
    ELSE CopyRegistered(PipelineRegisterPass(pls, pid, Head(items)[2]), pid,
                        Tail(items))

\* a variant of the copy that adds the template's own stage objects to the
\* new pipeline instead of new stages (used to test the properties)
CloneTemplateSharingStages(pls, sts, template) ==
    [raised    |-> NoExc,
     value     |-> Len(pls) + 1,
     pipelines |-> CopyRegistered(
                       Append(pls, [NewPipeline(pls[template].name) EXCEPT
                                       !.stages = pls[template].stages]),
                       Len(pls) + 1, pls[template].registered_passes),
     stages    |-> sts,
     how       |-> "clone",
     of        |-> template]

\* the copy of a template that PassManager.create_pipeline builds: a new
\* pipeline with the template's name, new stages holding the template's pass
\* instances, and the template's registered classes registered one by one
CloneTemplate(pls, sts, template) ==
    LET new_stages == CloneStages(sts, pls[template].stages)
        pipeline   == [NewPipeline(pls[template].name) EXCEPT
                          !.stages = [k \in 1..Len(new_stages) |-> Len(sts) + k]]
    IN  [raised    |-> NoExc,
         value     |-> Len(pls) + 1,
         pipelines |-> CopyRegistered(Append(pls, pipeline), Len(pls) + 1,
                                      pls[template].registered_passes),
         stages    |-> sts \o new_stages,
         how       |-> "clone",
         of        |-> template]

\* a variant of PassManager.create_pipeline that indexes pipeline_templates
\* with the name, so that an unknown name raises KeyError (used to test the
\* properties)
CreatePipelineIndexing(pt, pls, sts, arg) ==
    IF arg # <<>>
    THEN IF GetPipelineTemplate(pt, arg[1]) = 0
         THEN [raised |-> "KeyError", value |-> 0, pipelines |-> pls,
               stages |-> sts, how |-> "unknown", of |-> 0]
         ELSE CloneTemplate(pls, sts, GetPipelineTemplate(pt, arg[1]))
    ELSE [raised |-> NoExc, value |-> Len(pls) + 1,
          pipelines |-> Append(pls, NewPipeline("")),
          stages |-> sts, how |-> "noname", of |-> 0]

\* PassManager.create_pipeline(template_name): arg is <<>> for None and
\* <<name>> for a name; the new pipeline is the last of pipelines
CreatePipeline(pt, pls, sts, arg) ==
    IF arg # <<>>
    THEN LET template == GetPipelineTemplate(pt, arg[1])
         IN  IF template = 0
             THEN [raised |-> NoExc, value |-> Len(pls) + 1,
                   pipelines |-> Append(pls, NewPipeline(arg[1])),
                   stages |-> sts, how |-> "unknown", of |-> 0]
             ELSE CloneTemplate(pls, sts, template)
    ELSE [raised |-> NoExc, value |-> Len(pls) + 1,
          pipelines |-> Append(pls, NewPipeline("")),
          stages |-> sts, how |-> "noname", of |-> 0]

\* PassManager.register_pipeline_template(name, pipeline)
RegisterPipelineTemplate(pt, name, pid) == DictPut(pt, name, pid)

\* a variant of create_default_pipeline that registers the classes and
\* creates no stage (used to test the properties)
CreateDefaultPipelineUnstaged(pls, sts, insts) ==
    LET pid == Len(pls) + 1
        p0  == Append(pls, NewPipeline("Default Quantum Transpiler"))
    IN  [value     |-> pid,
         pipelines |-> PipelineRegisterPass(
                           PipelineRegisterPass(
                               PipelineRegisterPass(
                                   PipelineRegisterPass(p0, pid, "GateReduction"),
                                   pid, "ConstantFolding"),
                               pid, "CircuitDepthReduction"),
                           pid, "QubitMapperPass"),
         stages    |-> sts,
         instances |-> insts]

\* create_default_pipeline(): the new pipeline is the last of the pipelines
CreateDefaultPipeline(pls, sts, insts) ==
    LET pid  == Len(pls) + 1
        p0   == Append(pls, NewPipeline("Default Quantum Transpiler"))
        p1   == PipelineRegisterPass(
                    PipelineRegisterPass(
                        PipelineRegisterPass(
                            PipelineRegisterPass(p0, pid, "GateReduction"),
                            pid, "ConstantFolding"),
                        pid, "CircuitDepthReduction"),
                    pid, "QubitMapperPass")
        n    == Len(insts)
        opt  == CreateStage(p1, sts, pid, "Optimization",
                            <<"Optimize the quantum circuit">>)
        opt2 == AddPass(AddPass(opt.stages, Len(sts) + 1, n + 1),
                        Len(sts) + 1, n + 2)
        map  == CreateStage(opt.pipelines, opt2, pid, "Mapping",
                            <<"Map qubits to hardware">>)
        map2 == AddPass(map.stages, Len(sts) + 2, n + 3)
        fin  == CreateStage(map.pipelines, map2, pid, "Final Optimization",
                            <<"Final circuit optimization">>)
        fin2 == AddPass(fin.stages, Len(sts) + 3, n + 4)
    IN  [value     |-> pid,
         pipelines |-> fin.pipelines,
         stages    |-> fin2,
         instances |-> insts \o <<[cls |-> "GateReduction"],
                                  [cls |-> "ConstantFolding"],
                                  [cls |-> "QubitMapperPass"],
                                  [cls |-> "CircuitDepthReduction"]>>]

\* a variant of initialize_transpiler that makes a new PassManager and
\* registers the four classes with it (used to test the properties)
RegisterBuiltinsAnew(pc) ==
    <<<<"GateReduction", "GateReduction">>,
      <<"ConstantFolding", "ConstantFolding">>,
      <<"CircuitDepthReduction", "CircuitDepthReduction">>,
      <<"QubitMapperPass", "QubitMapperPass">>>>

\* the four register_pass calls of initialize_transpiler()
RegisterBuiltins(pc) ==
    ManagerRegisterPass(
        ManagerRegisterPass(
            ManagerRegisterPass(
                ManagerRegisterPass(pc, "GateReduction"),
                "ConstantFolding"),
            "CircuitDepthReduction"),
        "QubitMapperPass")

\* ------------------------------------------------------------------------
\* transpiler.py: running passes, stages and pipelines
\* A run works on objects of its own: the circuits (each a list of the
\* names added to it) and the options dicts (each a set of keys).
\* ------------------------------------------------------------------------

\* options = options or {} : None (0) and an empty dict give a new dict
OrEmptyDict(oref, rs) ==
    IF oref = 0 \/ rs.dicts[oref] = {}
    THEN [ref |-> Len(rs.dicts) + 1,
          rs  |-> [rs EXCEPT !.dicts = Append(@, {})]]
    ELSE [ref |-> oref, rs |-> rs]

\* pass_instance.run(circuit, options) of instance iid
PassRun(iid, cref, oref, rs) ==
    LET cls == instances[iid].cls
    IN  CASE cls = "MarkPass" ->
               [raised |-> NoException,
                value  |-> cref,
                rs     |-> [rs EXCEPT !.circuits[cref] = Append(@, cls),
                                      !.dicts[oref] = @ \cup {cls}]]
          [] cls = "CopyPass" ->
               [raised |-> NoException,
                value  |-> Len(rs.circuits) + 1,
                rs     |-> [rs EXCEPT !.circuits =
                                Append(@, Append(rs.circuits[cref], cls))]]
          [] cls = "FailingPass" ->
               [raised |-> [type |-> "RuntimeError", id |-> rs.nexc + 1,
                            by |-> iid],
                value  |-> 0,
                rs     |-> [rs EXCEPT !.nexc = @ + 1]]
          [] OTHER ->
               [raised |-> NoException, value |-> cref, rs |-> rs]

\* the record of one invocation of a pass
Invocation(sid, iid, cref, oref, r) ==
    [stage |-> sid, pass |-> iid, circuit |-> cref, options |-> oref,
     out |-> r.value]

\* a variant of the loop of TranspilerStage.run that logs the error of a
\* pass and goes on with the next pass (used to test the properties)
RECURSIVE RunPassesSwallowing(_, _, _, _, _)
RunPassesSwallowing(sid, idx, cref, oref, rs) ==
    IF idx > Len(stages[sid].passes)
    THEN [raised |-> NoException, value |-> cref, rs |-> rs]
    ELSE LET iid == stages[sid].passes[idx]
             r   == PassRun(iid, cref, oref, rs)
             rs1 == [r.rs EXCEPT !.log =
                        Append(@, Invocation(sid, iid, cref, oref, r))]
         IN  IF r.raised # NoException
             THEN RunPassesSwallowing(sid, idx + 1, cref, oref, rs1)
             ELSE RunPassesSwallowing(sid, idx + 1, r.value, oref, rs1)

\* the classes of the passes invoked so far that no later pass invalidated
RECURSIVE ValidClasses(_, _)
ValidClasses(log, n) ==
    IF n = 0 THEN {}
    ELSE (ValidClasses(log, n - 1) \ Invalidates(instances[log[n].pass].cls))
             \cup {instances[log[n].pass].cls}

\* a variant of the loop of TranspilerStage.run that consults requires() and
\* invalidates(): a pass whose required classes have not all run, or were
\* invalidated since, is left out (used to test the properties)
RECURSIVE RunPassesChecking(_, _, _, _, _)
RunPassesChecking(sid, idx, cref, oref, rs) ==
    IF idx > Len(stages[sid].passes)
    THEN [raised |-> NoException, value |-> cref, rs |-> rs]
    ELSE LET iid == stages[sid].passes[idx]
             r   == PassRun(iid, cref, oref, rs)
             rs1 == [r.rs EXCEPT !.log =
                        Append(@, Invocation(sid, iid, cref, oref, r))]
         IN  IF ~(Requires(instances[iid].cls)
                     \subseteq ValidClasses(rs.log, Len(rs.log)))
             THEN RunPassesChecking(sid, idx + 1, cref, oref, rs)
             ELSE IF r.raised # NoException
             THEN [raised |-> r.raised, value |-> 0, rs |-> rs1]
             ELSE RunPassesChecking(sid, idx + 1, r.value, oref, rs1)

\* the loop of TranspilerStage.run from pass idx on:
\*   try: result = pass_instance.run(result, options)
\*   except Exception: logger.error(...); raise
RECURSIVE RunPasses(_, _, _, _, _)
RunPasses(sid, idx, cref, oref, rs) ==
    IF idx > Len(stages[sid].passes)
    THEN [raised |-> NoException, value |-> cref, rs |-> rs]
    ELSE LET iid == stages[sid].passes[idx]
             r   == PassRun(iid, cref, oref, rs)
             rs1 == [r.rs EXCEPT !.log =
                        Append(@, Invocation(sid, iid, cref, oref, r))]
         IN  IF r.raised # NoException
             THEN [raised |-> r.raised, value |-> 0, rs |-> rs1]
             ELSE RunPasses(sid, idx + 1, r.value, oref, rs1)

\* TranspilerStage.run(circuit, options)
StageRunOf(sid, cref, oref, rs) ==
    LET o == OrEmptyDict(oref, rs)
    IN  RunPasses(sid, 1, cref, o.ref, o.rs)

\* a variant of the loop of TranspilerPipeline.run that hands every stage
\* the circuit the pipeline was given (used to test the properties)
RECURSIVE RunStagesFromInput(_, _, _, _, _)
RunStagesFromInput(pid, idx, cref, oref, rs) ==
    IF idx > Len(pipelines[pid].stages)
    THEN [raised |-> NoException, value |-> cref, rs |-> rs]
    ELSE LET r == StageRunOf(pipelines[pid].stages[idx], 1, oref, rs)
         IN  IF r.raised # NoException
             THEN [raised |-> r.raised, value |-> 0, rs |-> r.rs]
             ELSE RunStagesFromInput(pid, idx + 1, r.value, oref, r.rs)

\* the loop of TranspilerPipeline.run from stage idx on:
\*   try: result = stage.run(result, options)
\*   except Exception: logger.error(...); raise
RECURSIVE RunStages(_, _, _, _, _)
RunStages(pid, idx, cref, oref, rs) ==
    IF idx > Len(pipelines[pid].stages)
    THEN [raised |-> NoException, value |-> cref, rs |-> rs]
    ELSE LET r == StageRunOf(pipelines[pid].stages[idx], cref, oref, rs)
         IN  IF r.raised # NoException
             THEN [raised |-> r.raised, value |-> 0, rs |-> r.rs]
             ELSE RunStages(pid, idx + 1, r.value, oref, r.rs)

\* TranspilerPipeline.run(circuit, options)
PipelineRunOf(pid, cref, oref, rs) ==
    LET o == OrEmptyDict(oref, rs)
    IN  RunStages(pid, 1, cref, o.ref, o.rs)

\* What a caller passes as options: None, an empty dict, a dict with a key.
OptionKinds == {"None", "empty", "seed"}

\* The objects of a run as the caller sets them up: its circuit is object 1,
\* its options dict (if any) is object 1 of the dicts.
RunStart(kind) ==
    [circuits |-> <<<<>>>>,
     dicts    |-> IF kind = "None" THEN <<>>
                  ELSE IF kind = "empty" THEN <<{}>> ELSE <<{"seed"}>>,
     log      |-> <<>>,
     nexc     |-> 0]

OptionsRef(kind) == IF kind = "None" THEN 0 ELSE 1

NoRet == [call |-> "none"]

\* what the caller of a run sees
RunRet(call, target, kind, r) ==
    [call |-> call, target |-> target, options |-> kind,
     raised |-> r.raised, value |-> r.value,
     circuits |-> r.rs.circuits, dicts |-> r.rs.dicts, log |-> r.rs.log,
     nexc |-> r.rs.nexc]

\* ------------------------------------------------------------------------
\* Each specification below drives one part of the program and leaves the
\* variables of the other parts as they are here.
\* ------------------------------------------------------------------------

\* the text pipeline's variables in the specifications that do not use them
QasmIdle ==
    /\ source = [readable |-> FALSE, content |-> <<>>]
    /\ parsed = NoIR
    /\ qasm = <<>>
    /\ reparsed = NoIR
    /\ qpc = "idle"

\* the engine's variables in the specifications that do not use it
OptIdle ==
    /\ circuit = CircuitOf(<<>>)
    /\ given = circuit
    /\ optimization_level = 0
    /\ target_depth = <<>>
    /\ outcome = NoCall
    /\ call_args = NoArgs
    /\ written = <<>>

\* the transpiler's variables in the specifications that do not use them
PassIdle ==
    /\ pass_classes = <<>>
    /\ pipeline_templates = <<>>
    /\ pipelines = <<>>
    /\ stages = <<>>
    /\ instances = <<>>
    /\ origin = <<>>
    /\ ret = NoRet
    /\ calls = 0

\* ------------------------------------------------------------------------
\* The text pipeline: parse_qasm, circuit_to_qasm, parse_qasm again
\* ------------------------------------------------------------------------

\* most statements of one source text
MaxStmts == 2

LineVersion    == <<"OPENQASM", " ", "2", ".", "0", ";", "\n">>
LineBadVersion == <<"OPENQASM", " ", "2", ";", "\n">>
LineInclude    == <<"include", " ", "\"", "qelib1", ".", "inc", "\"", ";", "\n">>
LineQreg       == <<"qreg", " ", "q", "[", "2", "]", ";", "\n">>
LineCreg       == <<"creg", " ", "c", "[", "02", "]", ";", "\n">>
LineGateOne    == <<"gate", " ", "g", " ", "a", " ", "{", " ", "h", " ", "a", ";",
                    " ", "}", "\n">>
LineGateTwo    == <<"gate", " ", "g", " ", "a", " ", "{", " ", "h", " ", "a", ";",
                    " ", "x", " ", "a", ";", " ", "}", "\n">>
LineH          == <<"h", " ", "q", "[", "0", "]", ";", "\n">>
LineX          == <<"x", " ", "q", "[", "1", "]", ";", "\n">>
LineCx         == <<"cx", " ", "q", "[", "0", "]", ",", "q", "[", "1", "]", ";", "\n">>
LineRx         == <<"rx", "(", "0", ".", "5", ")", " ", "q", "[", "0", "]", ";", "\n">>
LineComment    == <<"/", "/", " ", "h", " ", "q", "[", "0", "]", ";", "\n">>

SourceLines ==
    {LineVersion, LineBadVersion, LineInclude, LineQreg, LineCreg, LineGateOne,
     LineGateTwo, LineH, LineX, LineCx, LineRx, LineComment}

SourceFiles ==
    {[readable |-> FALSE, content |-> <<>>]}
    \cup {[readable |-> TRUE, content |-> Concat(lines)] :
            lines \in SeqsUpTo(SourceLines, MaxStmts)}

QasmInit ==
    /\ source \in SourceFiles
    /\ parsed = NoIR
    /\ qasm = <<>>
    /\ reparsed = NoIR
    /\ qpc = "source"

\* circuit = parse_qasm(source_file)
ParseSource ==
    /\ qpc = "source"
    /\ parsed' = parse_qasm(source)
    /\ qpc' = "parsed"
    /\ UNCHANGED <<source, qasm, reparsed>>
    /\ UNCHANGED <<optVars, passVars>>

\* optimized_qasm = circuit_to_qasm(circuit), for a circuit that is not None
Serialize ==
    /\ qpc = "parsed"
    /\ parsed # NoIR
    /\ qasm' = circuit_to_qasm(parsed)
    /\ qpc' = "emitted"
    /\ UNCHANGED <<source, parsed, reparsed>>
    /\ UNCHANGED <<optVars, passVars>>

\* parse_qasm on a file that holds the emitted text
ParseEmitted ==
    /\ qpc = "emitted"
    /\ reparsed' = parse_qasm([readable |-> TRUE, content |-> qasm])
    /\ qpc' = "reparsed"
    /\ UNCHANGED <<source, parsed, qasm>>
    /\ UNCHANGED <<optVars, passVars>>

QasmNext == ParseSource \/ Serialize \/ ParseEmitted

QasmStart == QasmInit /\ OptIdle /\ PassIdle

SpecQasm == QasmStart /\ [][QasmNext]_vars

\* structural equality of two IRs (dict == dict, list == list)
StructEq(a, b) ==
    /\ a.version = b.version
    /\ a.includes = b.includes
    /\ DictEq(a.qregs, b.qregs)
    /\ DictEq(a.cregs, b.cregs)
    /\ a.gate_definitions = b.gate_definitions
    /\ a.operations = b.operations

OptStart == OptInit /\ QasmIdle /\ PassIdle

OptNext == OptimizeCircuit \/ CancelAdjacentGates \/ EstimateCircuitDepth

SpecOpt == OptStart /\ [][OptNext]_vars

\* ------------------------------------------------------------------------
\* optimize(source_file, dest_file, numqubit, depth)
\* A path is the list of its parts, the extension last.
\* ------------------------------------------------------------------------

\* os.path.splitext(path)[1].lower(), for the extensions in use
Lower(ext) == IF ext = ".QASM" THEN ".qasm" ELSE ext

\* dest_file, or f"{base}_optimized{ext}" of the source file when not given
DestFile(a) ==
    IF a.dest_file # <<>> THEN a.dest_file[1]
    ELSE <<a.source_file[1], "_optimized", a.source_file[2]>>

\* os.path.splitext(dest_file)[0] + "_report.json"
ReportFile(dest) == SubSeq(dest, 1, Len(dest) - 1) \o <<"_report.json">>

\* how optimize ends: the exception that leaves it (NoExc for a return), the
\* value returned, and the files written
NoFiles(raised, value) == [raised |-> raised, value |-> value, written |-> <<>>]

\* lines 309-312: numqubit, or the sum of the register sizes when it is None
\* or 0
NumQubit(a, c) == IF a.numqubit = 0 THEN SumSizes(c.qregs) ELSE a.numqubit

\* lines 309-350, with the dest file written first, before the optimization
\* has run (used to test the properties)
WriteThenOptimize(a, c, level) ==
    LET numqubit == NumQubit(a, c)
        early    == <<[path |-> DestFile(a), content |-> circuit_to_qasm(c)]>>
        r        == optimize_circuit(c, numqubit, a.depth, level)
    IN  IF r.raised # NoExc
        THEN [raised |-> r.raised, value |-> "none", written |-> early]
        ELSE [raised  |-> NoExc,
              value   |-> "True",
              written |-> <<[path    |-> DestFile(a),
                             content |-> circuit_to_qasm(r.circuit)],
                            [path    |-> ReportFile(DestFile(a)),
                             content |-> r.circuit.optimization_stats]>>]

\* lines 309-350: optimize_circuit, circuit_to_qasm, then the two files
OptimizeAndWrite(a, c, level) ==
    LET numqubit == NumQubit(a, c)
        r        == optimize_circuit(c, numqubit, a.depth, level)
    IN  IF r.raised # NoExc
        THEN NoFiles(r.raised, "none")
        ELSE [raised  |-> NoExc,
              value   |-> "True",
              written |-> <<[path    |-> DestFile(a),
                             content |-> circuit_to_qasm(r.circuit)],
                            [path    |-> ReportFile(DestFile(a)),
                             content |-> r.circuit.optimization_stats]>>]

\* config.get_setting("optimization_level", 2): the configured level, 2 when
\* none is configured
ConfiguredLevel(a) == IF a.config = <<>> THEN 2 ELSE a.config[1]

\* a variant of optimize without the check of the file extension (used to
\* test the properties)
optimize_any_extension(a) ==
    IF ~a.exists THEN NoFiles(NoExc, "False")
    ELSE CHOOSE r \in {IF c = NoIR THEN NoFiles(NoExc, "False")
                       ELSE OptimizeAndWrite(a, c, ConfiguredLevel(a)) :
                          c \in {parse_qasm(a.file)}} : TRUE

\* a variant of optimize that writes the dest file before optimizing (used
\* to test the properties)
optimize_writing_first(a) ==
    IF ~a.exists THEN NoFiles(NoExc, "False")
    ELSE IF Lower(a.source_file[2]) # ".qasm" THEN NoFiles(NoExc, "False")
    ELSE CHOOSE r \in {IF c = NoIR THEN NoFiles(NoExc, "False")
                       ELSE WriteThenOptimize(a, c, ConfiguredLevel(a)) :
                          c \in {parse_qasm(a.file)}} : TRUE

\* optimize(source_file, dest_file, numqubit, depth); c is the circuit that
\* parse_qasm(source_file) returned, evaluated once
optimize(a) ==
    IF ~a.exists THEN NoFiles(NoExc, "False")
    ELSE IF Lower(a.source_file[2]) # ".qasm" THEN NoFiles(NoExc, "False")
    ELSE LET level == ConfiguredLevel(a)
         IN  CHOOSE r \in {IF c = NoIR THEN NoFiles(NoExc, "False")
                           ELSE OptimizeAndWrite(a, c, level) :
                              c \in {parse_qasm(a.file)}} : TRUE

\* the source files optimize is given: one that does not exist, one that
\* exists and cannot be read, and readable texts
CliFiles ==
    {[exists |-> FALSE, file |-> [readable |-> FALSE, content |-> <<>>]],
     [exists |-> TRUE,  file |-> [readable |-> FALSE, content |-> <<>>]]}
    \cup {[exists |-> TRUE, file |-> [readable |-> TRUE, content |-> t]] :
            t \in {<<>>,
                   LineVersion \o LineQreg \o LineH \o LineH \o LineCx,
                   LineQreg \o LineComment}}

Extensions == {".qasm", ".QASM", ".txt", ""}

\* the arguments of a call of optimize and what it finds: numqubit 0 stands
\* for None as well, depth and dest_file are <<>> for None
CliArgs ==
    {[exists      |-> f.exists,
      file        |-> f.file,
      source_file |-> <<"circuit", ext>>,
      dest_file   |-> dest,
      numqubit    |-> n,
      depth       |-> d,
      config      |-> cfg] :
        f \in CliFiles, ext \in Extensions,
        dest \in {<<>>, <<<<"out", ".qasm">>>>},
        n \in {0, 3}, d \in {<<>>, <<2>>},
        cfg \in {<<>>} \cup {<<l>> : l \in Levels}}

CliInit ==
    /\ call_args \in CliArgs
    /\ written = <<>>
    /\ outcome = NoCall
    /\ circuit = CircuitOf(<<>>)
    /\ given = circuit
    /\ optimization_level = 0
    /\ target_depth = <<>>

\* success = optimize(source, dest, numqubit, depth)
Optimize ==
    /\ outcome.call = "none"
    /\ LET r == optimize(call_args)
       IN  /\ written' = r.written
           /\ outcome' = [call |-> "optimize", raised |-> r.raised,
                          returned |-> r.raised = NoExc, value |-> r.value]
    /\ UNCHANGED <<circuit, given, optimization_level, target_depth, call_args>>
    /\ UNCHANGED <<qasmVars, passVars>>

CliStart == CliInit /\ QasmIdle /\ PassIdle

CliNext == Optimize

SpecCli == CliStart /\ [][CliNext]_vars

\* ------------------------------------------------------------------------
\* Calls into the pass manager and the pipelines it hands out
\* ------------------------------------------------------------------------

\* most calls of one behaviour
MaxCalls == 3

\* the classes a caller registers, and the names it asks for
RegisteredByCaller ==
    {"MarkPass", "AbstractPass", "BrokenInitPass", "other.MarkPass"}

RequestedNames ==
    {"GateReduction", "MarkPass", "AbstractPass", "BrokenInitPass",
     "DoesNotExist"}

KeywordArgs == {{}, {"seed"}}

TemplateArgs == {<<>>, <<"default">>, <<"custom">>, <<"DoesNotExist">>}

\* the module's state after import: _pass_manager = PassManager()
ManagerInit ==
    /\ pass_classes = <<>>
    /\ pipeline_templates = <<>>
    /\ pipelines = <<>>
    /\ stages = <<>>
    /\ instances = <<>>
    /\ origin = <<>>
    /\ ret = NoRet
    /\ calls = 0

\* initialize_transpiler()
InitializeTranspiler ==
    /\ calls < MaxCalls
    /\ LET d == CreateDefaultPipeline(pipelines, stages, instances)
       IN  /\ pass_classes' = RegisterBuiltins(pass_classes)
           /\ pipelines' = d.pipelines
           /\ stages' = d.stages
           /\ instances' = d.instances
           /\ pipeline_templates' =
                  RegisterPipelineTemplate(pipeline_templates, "default", d.value)
           /\ origin' = Append(origin, [how |-> "default", of |-> 0])
    /\ ret' = [call |-> "initialize_transpiler", raised |-> NoExc,
               value |-> "_pass_manager"]
    /\ calls' = calls + 1
    /\ UNCHANGED <<qasmVars, optVars>>

\* manager = get_pass_manager()
CallGetPassManager ==
    /\ calls < MaxCalls
    /\ ret' = [call |-> "get_pass_manager",
               raised |-> get_pass_manager(<<>>).raised,
               value |-> get_pass_manager(<<>>).value]
    /\ calls' = calls + 1
    /\ UNCHANGED <<pass_classes, pipeline_templates, pipelines, stages,
                   instances, origin>>
    /\ UNCHANGED <<qasmVars, optVars>>

\* get_pass_manager().register_pass(cls); replaced is history: what
\* get_pass_class answered for the name of the class before the call
CallManagerRegisterPass(cls) ==
    /\ calls < MaxCalls
    /\ pass_classes' = ManagerRegisterPass(pass_classes, cls)
    /\ ret' = [call |-> "PassManager.register_pass", cls |-> cls,
               raised |-> NoExc,
               replaced |-> ManagerGetPassClass(pass_classes, ClassName(cls))]
    /\ calls' = calls + 1
    /\ UNCHANGED <<pipeline_templates, pipelines, stages, instances, origin>>
    /\ UNCHANGED <<qasmVars, optVars>>

\* get_pass_manager().create_pass(name, **kwargs)
CallCreatePass(name, kwargs) ==
    /\ calls < MaxCalls
    /\ LET r == CreatePass(pass_classes, instances, name, kwargs)
       IN  /\ instances' = r.instances
           /\ ret' = [call |-> "create_pass", name |-> name, kwargs |-> kwargs,
                      raised |-> r.raised, value |-> r.value]
    /\ calls' = calls + 1
    /\ UNCHANGED <<pass_classes, pipeline_templates, pipelines, stages, origin>>
    /\ UNCHANGED <<qasmVars, optVars>>

\* get_pass_manager().register_pipeline_template(name, pipeline)
CallRegisterPipelineTemplate(name, pid) ==
    /\ calls < MaxCalls
    /\ pipeline_templates' = RegisterPipelineTemplate(pipeline_templates, name, pid)
    /\ ret' = [call |-> "register_pipeline_template", name |-> name,
               target |-> pid, raised |-> NoExc]
    /\ calls' = calls + 1
    /\ UNCHANGED <<pass_classes, pipelines, stages, instances, origin>>
    /\ UNCHANGED <<qasmVars, optVars>>

\* get_pass_manager().create_pipeline(template_name)
CallCreatePipeline(arg) ==
    /\ calls < MaxCalls
    /\ LET r == CreatePipeline(pipeline_templates, pipelines, stages, arg)
       IN  /\ pipelines' = r.pipelines
           /\ stages' = r.stages
           /\ origin' = IF r.raised = NoExc
                        THEN Append(origin, [how |-> r.how, of |-> r.of])
                        ELSE origin
           /\ ret' = [call |-> "create_pipeline", arg |-> arg,
                      raised |-> r.raised, value |-> r.value]
    /\ calls' = calls + 1
    /\ UNCHANGED <<pass_classes, pipeline_templates, instances>>
    /\ UNCHANGED <<qasmVars, optVars>>

\* pipeline.register_pass(cls)
CallPipelineRegisterPass(pid, cls) ==
    /\ calls < MaxCalls
    /\ pipelines' = PipelineRegisterPass(pipelines, pid, cls)
    /\ ret' = [call |-> "Pipeline.register_pass", target |-> pid, cls |-> cls,
               raised |-> NoExc]
    /\ calls' = calls + 1
    /\ UNCHANGED <<pass_classes, pipeline_templates, stages, instances, origin>>
    /\ UNCHANGED <<qasmVars, optVars>>

\* pipeline.create_stage("Extra")
CallCreateStage(pid) ==
    /\ calls < MaxCalls
    /\ LET r == CreateStage(pipelines, stages, pid, "Extra", <<>>)
       IN  /\ pipelines' = r.pipelines
           /\ stages' = r.stages
    /\ ret' = [call |-> "create_stage", target |-> pid, raised |-> NoExc,
               value |-> Len(stages) + 1]
    /\ calls' = calls + 1
    /\ UNCHANGED <<pass_classes, pipeline_templates, instances, origin>>
    /\ UNCHANGED <<qasmVars, optVars>>

\* stage.add_pass(pass_instance)
CallAddPass(sid, iid) ==
    /\ calls < MaxCalls
    /\ stages' = AddPass(stages, sid, iid)
    /\ ret' = [call |-> "add_pass", target |-> sid, pass |-> iid,
               raised |-> NoExc]
    /\ calls' = calls + 1
    /\ UNCHANGED <<pass_classes, pipeline_templates, pipelines, instances, origin>>
    /\ UNCHANGED <<qasmVars, optVars>>

\* the modules a caller names: one that does not exist, one whose code
\* raises while it is imported, one that imports the base classes and defines
\* passes and a function, one that defines an abstract pass and a pass
Modules ==
    {[import |-> "ImportError", attrs |-> <<>>],
     [import |-> "RuntimeError", attrs |-> <<>>],
     [import |-> "ok",
      attrs  |-> <<"CopyPass", "GateReduction", "OptimizationPass",
                   "TranspilerPass", "helper_function">>],
     [import |-> "ok", attrs |-> <<"AbstractPass", "MarkPass">>]}

\* get_pass_manager().load_passes_from_module(module_name)
CallLoadPassesFromModule(mod) ==
    /\ calls < MaxCalls
    /\ LET r == LoadPassesFromModule(pass_classes, mod)
       IN  /\ pass_classes' = r.pass_classes
           /\ ret' = [call |-> "load_passes_from_module", module |-> mod,
                      raised |-> r.raised, value |-> r.value]
    /\ calls' = calls + 1
    /\ UNCHANGED <<pipeline_templates, pipelines, stages, instances, origin>>
    /\ UNCHANGED <<qasmVars, optVars>>

\* pipeline.run(circuit, options)
CallPipelineRun(pid, kind) ==
    /\ calls < MaxCalls
    /\ ret' = RunRet("Pipeline.run", pid, kind,
                     PipelineRunOf(pid, 1, OptionsRef(kind), RunStart(kind)))
    /\ calls' = calls + 1
    /\ UNCHANGED <<pass_classes, pipeline_templates, pipelines, stages,
                   instances, origin>>
    /\ UNCHANGED <<qasmVars, optVars>>

Init == ManagerInit /\ QasmIdle /\ OptIdle

Next ==
    \/ InitializeTranspiler
    \/ CallGetPassManager
    \/ \E cls \in RegisteredByCaller : CallManagerRegisterPass(cls)
    \/ \E name \in RequestedNames, kwargs \in KeywordArgs :
          CallCreatePass(name, kwargs)
    \/ \E name \in {"default", "custom"}, pid \in 1..Len(pipelines) :
          CallRegisterPipelineTemplate(name, pid)
    \/ \E arg \in TemplateArgs : CallCreatePipeline(arg)
    \/ \E pid \in 1..Len(pipelines), cls \in RegisteredByCaller :
          CallPipelineRegisterPass(pid, cls)
    \/ \E pid \in 1..Len(pipelines) : CallCreateStage(pid)
    \/ \E sid \in 1..Len(stages), iid \in 1..Len(instances) :
          CallAddPass(sid, iid)
    \/ \E pid \in 1..Len(pipelines), kind \in OptionKinds :
          CallPipelineRun(pid, kind)
    \/ \E mod \in Modules : CallLoadPassesFromModule(mod)

Spec == Init /\ [][Next]_vars

\* ------------------------------------------------------------------------
\* Properties of the text pipeline
\* ------------------------------------------------------------------------

\* C1: for every IR that parse_qasm returns for a text, parse_qasm of
\* circuit_to_qasm(ir) is structurally equal to it: same version, includes,
\* qregs, cregs, gate_definitions and operations, in the same order.
RoundTrip ==
    qpc = "reparsed" => reparsed # NoIR /\ StructEq(reparsed, parsed)

\* ------------------------------------------------------------------------
\* Properties of the optimization engine
\* ------------------------------------------------------------------------

StatsFields ==
    {"original_gate_count", "optimized_gate_count", "gate_reduction",
     "gate_reduction_percentage", "original_depth", "optimized_depth",
     "depth_reduction", "depth_reduction_percentage", "optimization_level"}

OpH0 == [name |-> "h", params |-> <<>>, qubits |-> Q0]
OpX1 == [name |-> "x", params |-> <<>>, qubits |-> Q1]
OpCx == [name |-> "cx", params |-> <<>>, qubits |-> Q0 \o <<",">> \o Q1]

\* C2: for every circuit and every level 0..3, with or without target_depth,
\* optimize_circuit ends without an error and returns the IR carrying an
\* optimization_stats record with the nine fields.
OptimizeCircuitReturnsStats ==
    outcome.call = "optimize_circuit" =>
        /\ outcome.raised = NoExc
        /\ outcome.returned
        /\ DOMAIN circuit.optimization_stats = StatsFields

\* C3: at level 0 optimize_circuit returns the IR with the operations of the
\* input, and nothing but optimization_stats is changed.
LevelZeroNoOp ==
    (outcome.call = "optimize_circuit" /\ optimization_level = 0) =>
        /\ outcome.returned
        /\ circuit.operations = given.operations
        /\ circuit.optimization_stats # NoStats
        /\ [circuit EXCEPT !.optimization_stats = NoStats] = given

\* the number of pairs the loop of cancel_adjacent_gates drops from i on
RECURSIVE CancelledPairs(_, _)
CancelledPairs(ops, i) ==
    IF i >= Len(ops) THEN 0
    ELSE IF /\ ops[i].name = ops[i + 1].name
            /\ ops[i].qubits = ops[i + 1].qubits
            /\ ops[i].name \in SelfInverse
         THEN 1 + CancelledPairs(ops, i + 2)
         ELSE CancelledPairs(ops, i + 1)

\* C4: at level 1 the operations h q[0]; h q[0]; cx q[0],q[1] become
\* cx q[0],q[1] with gate_reduction 2, and gate_reduction is always twice the
\* number of cancelled adjacent pairs.
LevelOneCancellation ==
    (outcome.call = "optimize_circuit" /\ optimization_level = 1) =>
        /\ outcome.returned
        /\ circuit.optimization_stats.gate_reduction
               = 2 * CancelledPairs(given.operations, 1)
        /\ given.operations = <<OpH0, OpH0, OpCx>> =>
               /\ circuit.operations = <<OpCx>>
               /\ circuit.optimization_stats.gate_reduction = 2

\* the operations of ops at the indices in K, in order
RECURSIVE KeepAt(_, _, _)
KeepAt(ops, K, i) ==
    IF i > Len(ops) THEN <<>>
    ELSE (IF i \in K THEN <<ops[i]>> ELSE <<>>) \o KeepAt(ops, K, i + 1)

Cancels(ops, i, j) ==
    /\ ops[i].name = ops[j].name
    /\ ops[i].qubits = ops[j].qubits
    /\ ops[i].name \in SelfInverse

\* C5: gate cancellation removes an operation only together with its
\* immediate list neighbour, a gate of the same self-inverse name on the same
\* qubits; of h q[0]; x q[1]; h q[0] the cancellation of level 1 keeps all
\* three operations.
PhysicalAdjacency ==
    /\ outcome.call = "cancel_adjacent_gates" =>
         \E K \in SUBSET (1..Len(given.operations)) :
            /\ circuit.operations = KeepAt(given.operations, K, 1)
            /\ \A i \in (1..Len(given.operations)) \ K :
                  \/ /\ i + 1 <= Len(given.operations)
                     /\ i + 1 \notin K
                     /\ Cancels(given.operations, i, i + 1)
                  \/ /\ i >= 2
                     /\ i - 1 \notin K
                     /\ Cancels(given.operations, i - 1, i)
    /\ ( /\ given.operations = <<OpH0, OpX1, OpH0>>
         /\ outcome.call = "cancel_adjacent_gates" )
       => circuit.operations = <<OpH0, OpX1, OpH0>>

\* C5 witness: cancel_adjacent_gates has run on h q[0]; x q[1]; h q[0]
PhysicalAdjacencyWitness ==
    /\ outcome.call = "cancel_adjacent_gates"
    /\ given.operations = <<OpH0, OpX1, OpH0>>
    /\ Len(circuit.operations) = 3

\* ------------------------------------------------------------------------
\* Runs of stages and pipelines of every shape
\* ------------------------------------------------------------------------

\* most stages of a pipeline, most passes of a pipeline
MaxStages == 2
MaxPasses == 3

RunClasses == {"GateReduction", "MarkPass", "CopyPass", "FailingPass"}

\* A shape: the classes of the passes of a pipeline in order, and for each
\* stage the index of its last pass.
Shapes ==
    {sh \in [flat : SeqsUpTo(RunClasses, MaxPasses),
             ends : SeqsUpTo(0..MaxPasses, MaxStages)] :
        /\ \A k \in 1..Len(sh.ends) : sh.ends[k] <= Len(sh.flat)
        /\ \A k \in 1..(Len(sh.ends) - 1) : sh.ends[k] <= sh.ends[k + 1]
        /\ IF sh.ends = <<>> THEN sh.flat = <<>>
           ELSE sh.ends[Len(sh.ends)] = Len(sh.flat)}

StageStart(sh, k) == IF k = 1 THEN 1 ELSE sh.ends[k - 1] + 1

\* A pipeline built with TranspilerPipeline(), create_stage and add_pass, a
\* new instance for every pass.
RunInit ==
    \E sh \in Shapes :
        /\ instances = [i \in 1..Len(sh.flat) |-> [cls |-> sh.flat[i]]]
        /\ stages = [k \in 1..Len(sh.ends) |->
                       [NewStage("stage", <<>>) EXCEPT !.passes = [j \in 1..(sh.ends[k] - StageStart(sh, k) + 1)
                                      |-> StageStart(sh, k) + j - 1]]]
        /\ pipelines = <<[NewPipeline("") EXCEPT
                             !.stages = [k \in 1..Len(sh.ends) |-> k]]>>
        /\ origin = <<[how |-> "new", of |-> 0]>>
        /\ pass_classes = <<>>
        /\ pipeline_templates = <<>>
        /\ ret = NoRet
        /\ calls = 0

\* stage.run(circuit, options) by a caller
StageRun(sid, kind) ==
    /\ ret.call = "none"
    /\ ret' = RunRet("Stage.run", sid, kind,
                     StageRunOf(sid, 1, OptionsRef(kind), RunStart(kind)))
    /\ calls' = calls + 1
    /\ UNCHANGED <<pass_classes, pipeline_templates, pipelines, stages,
                   instances, origin>>
    /\ UNCHANGED <<qasmVars, optVars>>

\* pipeline.run(circuit, options) by a caller
PipelineRun(pid, kind) ==
    /\ ret.call = "none"
    /\ ret' = RunRet("Pipeline.run", pid, kind,
                     PipelineRunOf(pid, 1, OptionsRef(kind), RunStart(kind)))
    /\ calls' = calls + 1
    /\ UNCHANGED <<pass_classes, pipeline_templates, pipelines, stages,
                   instances, origin>>
    /\ UNCHANGED <<qasmVars, optVars>>

RunNext ==
    \/ \E sid \in 1..Len(stages), kind \in OptionKinds : StageRun(sid, kind)
    \/ \E pid \in 1..Len(pipelines), kind \in OptionKinds : PipelineRun(pid, kind)

RunStartState == RunInit /\ QasmIdle /\ OptIdle

SpecRun == RunStartState /\ [][RunNext]_vars

\* ------------------------------------------------------------------------
\* Properties of stage and pipeline runs
\* ------------------------------------------------------------------------

ClassOf(iid) == instances[iid].cls

\* the passes of the stages sids in the order of the lists
RECURSIVE ListOrder(_)
ListOrder(sids) ==
    IF sids = <<>> THEN <<>>
    ELSE [j \in 1..Len(stages[Head(sids)].passes) |->
             [stage |-> Head(sids), pass |-> stages[Head(sids)].passes[j]]]
         \o ListOrder(Tail(sids))

\* the places in an order whose pass raises
Raising(order) ==
    {k \in 1..Len(order) : ClassOf(order[k].pass) = "FailingPass"}

\* The log shows the passes of order invoked in that order, up to and
\* including the first that raises; that pass's exception, and no other, is
\* the one that left the call.
FailFast(order) ==
    LET n == IF Raising(order) = {} THEN Len(order) ELSE Min(Raising(order))
    IN  /\ Len(ret.log) = n
        /\ \A k \in 1..n : /\ ret.log[k].stage = order[k].stage
                           /\ ret.log[k].pass = order[k].pass
        /\ IF Raising(order) = {}
           THEN ret.raised = NoException /\ ret.nexc = 0
           ELSE /\ ret.raised # NoException
                /\ ret.raised = [type |-> "RuntimeError", id |-> 1,
                                 by |-> order[n].pass]
                /\ ret.nexc = 1

\* C6: TranspilerStage.run invokes its passes in list order; when a pass
\* raises no later pass of the stage is invoked, and the exception that leaves
\* run is the one the pass raised.
StageFailFast ==
    ret.call = "Stage.run" => FailFast(ListOrder(<<ret.target>>))

\* C6 witness: a stage [A, B, ...] whose first pass raised
StageFailFastWitness ==
    /\ ret.call = "Stage.run"
    /\ Len(stages[ret.target].passes) >= 2
    /\ ClassOf(stages[ret.target].passes[1]) = "FailingPass"
    /\ Len(ret.log) = 1
    /\ ret.raised # NoException
    /\ ret.raised.by = stages[ret.target].passes[1]

\* C7: TranspilerPipeline.run runs its stages in list order, each on the
\* circuit the one before returned; when a stage raises no later stage runs,
\* the same exception reaches the caller, and what the passes that ran did to
\* the caller's circuit stays done.
PipelineRunOrder ==
    ret.call = "Pipeline.run" =>
        /\ FailFast(ListOrder(pipelines[ret.target].stages))
        /\ \A k \in 1..Len(ret.log) :
              ret.log[k].circuit = IF k = 1 THEN 1 ELSE ret.log[k - 1].out
        /\ ret.raised = NoException =>
              ret.value = IF ret.log = <<>> THEN 1
                          ELSE ret.log[Len(ret.log)].out
        /\ Len(ret.circuits[1]) =
              Cardinality({k \in 1..Len(ret.log) :
                              /\ ClassOf(ret.log[k].pass) = "MarkPass"
                              /\ ret.log[k].circuit = 1})

\* C7 witness: the first stage changed the caller's circuit and then raised,
\* and the pipeline has a second stage with a pass
PipelineRunOrderWitness ==
    /\ ret.call = "Pipeline.run"
    /\ Len(pipelines[ret.target].stages) = 2
    /\ stages[pipelines[ret.target].stages[2]].passes # <<>>
    /\ ret.raised # NoException
    /\ ret.log[Len(ret.log)].stage = pipelines[ret.target].stages[1]
    /\ ret.circuits[1] = <<"MarkPass">>

\* ------------------------------------------------------------------------
\* Properties of the pass manager
\* ------------------------------------------------------------------------

\* the names a registry can be asked for
AllClassNames ==
    {ClassName(cls) : cls \in BuiltinClasses \cup UserClasses}
        \cup {"DoesNotExist"}

\* the step is one call of the given operation
Called(call) == calls' = calls + 1 /\ ret'.call = call

\* C8: registry isolation.  When register_pass is called on a pipeline that
\* create_pipeline cloned from a template, what the template answers to
\* get_pass_class and get_registered_passes is the same after the call as
\* before it, and so is the PassManager's own registry.
RegistryIsolation ==
    [][ (Called("Pipeline.register_pass")
            /\ origin[ret'.target].how = "clone")
        => LET template == origin[ret'.target].of
           IN  /\ \A name \in AllClassNames :
                     PipelineGetPassClass(pipelines', template, name)
                         = PipelineGetPassClass(pipelines, template, name)
               /\ PipelineGetRegisteredPasses(pipelines', template)
                     = PipelineGetRegisteredPasses(pipelines, template)
               /\ pass_classes' = pass_classes
               /\ \A name \in AllClassNames :
                     ManagerGetPassClass(pass_classes', name)
                         = ManagerGetPassClass(pass_classes, name) ]_vars

\* a class was registered on a clone: the clone knows it, its template and
\* the manager do not
RegistryIsolationWitness ==
    /\ ret.call = "Pipeline.register_pass"
    /\ origin[ret.target].how = "clone"
    /\ PipelineGetPassClass(pipelines, ret.target, ClassName(ret.cls))
          = <<ret.cls>>
    /\ PipelineGetPassClass(pipelines, origin[ret.target].of,
                            ClassName(ret.cls)) = <<>>
    /\ ManagerGetPassClass(pass_classes, ClassName(ret.cls)) = <<>>

\* C9: create_pass never raises.  It returns None for a name that is not
\* registered and for a class whose constructor raises, and a new instance
\* of the registered class otherwise; the manager's registries of passes
\* and of templates are the same after the call as before it.
CreatePassNeverRaises ==
    [][ Called("create_pass")
        => LET pass_class == ManagerGetPassClass(pass_classes, ret'.name)
           IN  /\ ret'.raised = NoExc
               /\ pass_classes' = pass_classes
               /\ pipeline_templates' = pipeline_templates
               /\ IF pass_class = <<>>
                  THEN ret'.value = 0 /\ instances' = instances
                  ELSE IF Construct(pass_class[1], ret'.kwargs) # NoExc
                  THEN ret'.value = 0 /\ instances' = instances
                  ELSE /\ ret'.value = Len(instances) + 1
                       /\ instances' =
                              Append(instances, [cls |-> pass_class[1]]) ]_vars

\* create_pass was asked for a registered abstract class and returned None
CreatePassNeverRaisesWitness ==
    /\ ret.call = "create_pass"
    /\ ret.name = "AbstractPass"
    /\ ManagerGetPassClass(pass_classes, "AbstractPass") = <<"AbstractPass">>
    /\ ret.raised = NoExc
    /\ ret.value = 0

\* the pipeline was made by create_pipeline without a template
MadeBare(pid) == origin[pid].how \in {"unknown", "noname"}

\* C10: create_pipeline with an unknown template name or with no name
\* returns, without raising, a new pipeline with no stages and no registered
\* classes, and leaves the manager and every existing object as they were;
\* run on such a pipeline returns the very circuit it was given, untouched.
BarePipelineUsable ==
    /\ [][ (Called("create_pipeline")
              /\ (ret'.arg = <<>>
                    \/ GetPipelineTemplate(pipeline_templates, ret'.arg[1]) = 0))
           => /\ ret'.raised = NoExc
              /\ ret'.value = Len(pipelines) + 1
              /\ Len(pipelines') = Len(pipelines) + 1
              /\ pipelines'[ret'.value].stages = <<>>
              /\ pipelines'[ret'.value].registered_passes = <<>>
              /\ SubSeq(pipelines', 1, Len(pipelines)) = pipelines
              /\ pass_classes' = pass_classes
              /\ pipeline_templates' = pipeline_templates
              /\ stages' = stages
              /\ instances' = instances ]_vars
    /\ [](ret.call = "Pipeline.run" /\ MadeBare(ret.target)
             /\ pipelines[ret.target].stages = <<>>
          => /\ ret.raised = NoException
             /\ ret.value = 1
             /\ ret.circuits[1] = <<>>
             /\ ret.log = <<>>)

\* a pipeline made for an unknown template name was run
BarePipelineUsableWitness ==
    /\ ret.call = "Pipeline.run"
    /\ origin[ret.target].how = "unknown"
    /\ pipelines[ret.target].stages = <<>>
    /\ pipelines[ret.target].registered_passes = <<>>
    /\ ret.raised = NoException
    /\ ret.value = 1

\* the create_pipeline call of this step names a registered template
ClonesTemplate ==
    /\ Called("create_pipeline")
    /\ ret'.arg # <<>>
    /\ GetPipelineTemplate(pipeline_templates, ret'.arg[1]) # 0

\* C11: the pipeline create_pipeline returns for a registered template has
\* the template's stages in the same order under the same names, each with
\* the same pass instances in the same order (the very instances of the
\* template, in new stage objects), and a registry of the same classes.
CloneSharesInstances ==
    [][ ClonesTemplate
        => LET template == GetPipelineTemplate(pipeline_templates, ret'.arg[1])
               old      == pipelines[template]
               new      == pipelines'[ret'.value]
           IN  /\ ret'.raised = NoExc
               /\ ret'.value = Len(pipelines) + 1
               /\ new.name = old.name
               /\ Len(new.stages) = Len(old.stages)
               /\ \A k \in 1..Len(old.stages) :
                     /\ new.stages[k] > Len(stages)
                     /\ stages'[new.stages[k]].name = stages[old.stages[k]].name
                     /\ stages'[new.stages[k]].passes
                            = stages[old.stages[k]].passes
               /\ new.registered_passes = old.registered_passes
               /\ PipelineGetRegisteredPasses(pipelines', ret'.value)
                     = PipelineGetRegisteredPasses(pipelines, template)
               /\ instances' = instances ]_vars

\* two pipelines cloned from one template hold the same pass instance
CloneSharesInstancesWitness ==
    /\ ret.call = "create_pipeline"
    /\ ret.raised = NoExc
    /\ origin[ret.value].how = "clone"
    /\ \E q \in 1..Len(pipelines) :
          /\ q # ret.value
          /\ origin[q].how = "clone"
          /\ origin[q].of = origin[ret.value].of
          /\ pipelines[q].stages # <<>>
          /\ stages[pipelines[q].stages[1]].passes # <<>>
          /\ stages[pipelines[q].stages[1]].passes[1]
                = stages[pipelines[ret.value].stages[1]].passes[1]
          /\ stages[pipelines[q].stages[1]].passes[1]
                = stages[pipelines[origin[q].of].stages[1]].passes[1]

\* ------------------------------------------------------------------------
\* Properties of the depth estimate
\* ------------------------------------------------------------------------

QubitsOf(op) ==
    {<<op.qubits[i], op.qubits[i + 2]>> :
        i \in {k \in 1..(Len(op.qubits) - 3) :
                  op.qubits[k + 1] = "[" /\ op.qubits[k + 3] = "]"}}

\* the depth of each of the first n operations: 1 plus the greatest depth
\* of the earlier operations that share a qubit with it
RECURSIVE OperationDepths(_, _)
OperationDepths(ops, n) ==
    IF n = 0 THEN <<>>
    ELSE LET d == OperationDepths(ops, n - 1)
         IN  Append(d, 1 + Max({0} \cup
                               {d[j] : j \in {k \in 1..(n - 1) :
                                   QubitsOf(ops[k]) \cap QubitsOf(ops[n]) # {}}}))

\* the length of the longest chain of operations linked by shared qubits
CriticalPathDepth(ops) == Max({0} \cup Range(OperationDepths(ops, Len(ops))))

\* C13: estimate_circuit_depth returns the critical-path depth of the IR, the
\* length of the longest chain of operations connected by shared qubits.
EstimateIsCriticalPath ==
    outcome.call = "estimate_circuit_depth" =>
        outcome.value = CriticalPathDepth(circuit.operations)

\* C20: the statistics of optimize_circuit.  The gate count and depth of the
\* circuit as given are recorded as the original values, those of the circuit
\* as returned as the optimized values; each reduction is original minus
\* optimized, each percentage is reduction / original * 100, and 0 when the
\* original value is 0.
OptimizationStatistics ==
    outcome.call = "optimize_circuit" =>
        /\ outcome.returned
        /\ circuit.optimization_stats # NoStats
        /\ LET st == circuit.optimization_stats
           IN  /\ st.original_gate_count = Len(given.operations)
               /\ st.original_depth = estimate_circuit_depth(given)
               /\ st.optimized_gate_count = Len(circuit.operations)
               /\ st.optimized_depth = estimate_circuit_depth(circuit)
               /\ st.gate_reduction
                     = st.original_gate_count - st.optimized_gate_count
               /\ st.depth_reduction = st.original_depth - st.optimized_depth
               /\ IF st.original_gate_count = 0
                  THEN st.gate_reduction_percentage.num = 0
                  ELSE st.gate_reduction_percentage
                          = [num |-> st.gate_reduction * 100,
                             den |-> st.original_gate_count]
               /\ IF st.original_depth = 0
                  THEN st.depth_reduction_percentage.num = 0
                  ELSE st.depth_reduction_percentage
                          = [num |-> st.depth_reduction * 100,
                             den |-> st.original_depth]

\* ------------------------------------------------------------------------
\* Properties of the parser on headers and comments
\* ------------------------------------------------------------------------

\* C16: for a text with no well-formed version header parse_qasm returns an
\* IR whose version is None, and circuit_to_qasm of that IR emits no version
\* header: the text holds no OPENQASM line.
MissingVersionOmitted ==
    /\ ( /\ qpc # "source"
         /\ source.readable
         /\ FindAll("version", source.content, 1) = <<>> )
       => parsed # NoIR /\ parsed.version = NoVersion
    /\ ( /\ qpc \in {"emitted", "reparsed"}
         /\ parsed.version = NoVersion )
       => "OPENQASM" \notin Range(qasm)

\* the text without its line comments: everything from // to the end of the
\* line is left out, the line break stays
RECURSIVE StripComments(_, _)
StripComments(s, in_comment) ==
    IF s = <<>> THEN <<>>
    ELSE IF in_comment
    THEN IF Head(s) = "\n" THEN <<"\n">> \o StripComments(Tail(s), FALSE)
         ELSE StripComments(Tail(s), TRUE)
    ELSE IF Len(s) >= 2 /\ s[1] = "/" /\ s[2] = "/"
    THEN StripComments(Tail(Tail(s)), TRUE)
    ELSE <<Head(s)>> \o StripComments(Tail(s), FALSE)

\* C17: parse_qasm strips // line comments: the IR of a text is the IR of
\* the text without its comments, so a comment adds no include, register,
\* gate definition or operation.
CommentsStripped ==
    (qpc # "source" /\ source.readable)
        => parsed = ParseContent(StripComments(source.content, FALSE))

\* ------------------------------------------------------------------------
\* Properties of optimize()
\* ------------------------------------------------------------------------

\* the call of optimize got as far as optimize_circuit
ReachesEngine ==
    /\ call_args.exists
    /\ Lower(call_args.source_file[2]) = ".qasm"
    /\ parse_qasm(call_args.file) # NoIR

\* how optimize_circuit ends on the circuit and arguments optimize hands it
EngineOutcome ==
    optimize_circuit(parse_qasm(call_args.file),
                     NumQubit(call_args, parse_qasm(call_args.file)),
                     call_args.depth, ConfiguredLevel(call_args))

\* C14: optimize returns False and writes neither the QASM file nor the
\* report when the source file does not exist, when its extension is not
\* .qasm, and when parse_qasm returns None.
InputErrorsWriteNothing ==
    ( /\ outcome.call = "optimize"
      /\ \/ ~call_args.exists
         \/ Lower(call_args.source_file[2]) # ".qasm"
         \/ parse_qasm(call_args.file) = NoIR )
    => /\ outcome.raised = NoExc
       /\ outcome.value = "False"
       /\ written = <<>>

\* optimize was given a .qasm file that exists and cannot be read
InputErrorsWriteNothingWitness ==
    /\ outcome.call = "optimize"
    /\ call_args.exists
    /\ Lower(call_args.source_file[2]) = ".qasm"
    /\ parse_qasm(call_args.file) = NoIR
    /\ outcome.value = "False"
    /\ written = <<>>

\* C15: when optimize_circuit raises, optimize writes neither the QASM file
\* nor the report, and the exception that leaves optimize is the one
\* optimize_circuit raised; a file is written only by a call that returns.
AbortWritesNothing ==
    outcome.call = "optimize" =>
        /\ ( /\ ReachesEngine
             /\ EngineOutcome.raised # NoExc )
           => /\ written = <<>>
              /\ ~outcome.returned
              /\ outcome.raised = EngineOutcome.raised
        /\ written # <<>> => outcome.returned /\ outcome.value = "True"

\* optimize_circuit raised inside optimize
AbortWritesNothingWitness ==
    /\ outcome.call = "optimize"
    /\ ReachesEngine
    /\ outcome.raised = "TypeError"
    /\ written = <<>>

\* ------------------------------------------------------------------------
\* Properties of loading and of the built-in configuration
\* ------------------------------------------------------------------------

\* the classes of a module that can be instantiated as passes: subclasses
\* of TranspilerPass that are neither base classes nor abstract
ConcretePasses(mod) ==
    {cls \in Range(mod.attrs) :
        /\ IsPassClass(cls)
        /\ cls \notin BaseClasses
        /\ cls # "AbstractPass"}

\* C18: load_passes_from_module registers every subclass of TranspilerPass
\* of the module except abstract and base classes and returns the number of
\* classes it registered; when the module cannot be imported it returns 0
\* without raising and the registry stays as it was.
LoadRegistersConcrete ==
    [][ Called("load_passes_from_module")
        => LET mod == ret'.module
           IN  /\ ret'.raised = NoExc
               /\ mod.import # "ok"
                     => ret'.value = 0 /\ pass_classes' = pass_classes
               /\ mod.import = "ok"
                     => /\ ret'.value = Cardinality(ConcretePasses(mod))
                        /\ DictKeys(pass_classes')
                              = DictKeys(pass_classes)
                                  \cup {ClassName(cls) : cls \in ConcretePasses(mod)}
                        /\ \A cls \in ConcretePasses(mod) :
                              ManagerGetPassClass(pass_classes', ClassName(cls))
                                  = <<cls>> ]_vars

\* the names of the stages of a pipeline, and the classes of the passes of
\* each of its stages, in order
StageNames(pls, sts, pid) ==
    [k \in 1..Len(pls[pid].stages) |-> sts[pls[pid].stages[k]].name]

StagePassClasses(pls, sts, insts, pid) ==
    [k \in 1..Len(pls[pid].stages) |->
        [j \in 1..Len(sts[pls[pid].stages[k]].passes) |->
            insts[sts[pls[pid].stages[k]].passes[j]].cls]]

\* C19: after initialize_transpiler the manager has GateReduction,
\* ConstantFolding, CircuitDepthReduction and QubitMapperPass registered and
\* one template more than before, "default" (the only one when the manager
\* was new); create_pipeline("default") then yields the stages Optimization
\* [GateReduction, ConstantFolding], Mapping [QubitMapperPass], Final
\* Optimization [CircuitDepthReduction] in that order.
DefaultConfiguration ==
    /\ [][ Called("initialize_transpiler")
           => /\ \A cls \in BuiltinClasses :
                    ManagerGetPassClass(pass_classes', cls) = <<cls>>
              /\ DictKeys(pass_classes') = DictKeys(pass_classes) \cup BuiltinClasses
              /\ DictKeys(pipeline_templates')
                    = DictKeys(pipeline_templates) \cup {"default"}
              /\ calls = 0 => DictKeys(pipeline_templates') = {"default"}
              /\ GetPipelineTemplate(pipeline_templates', "default")
                    = Len(pipelines') ]_vars
    /\ [][ ( /\ ret.call = "initialize_transpiler"
             /\ Called("create_pipeline")
             /\ ret'.arg = <<"default">> )
           => /\ ret'.raised = NoExc
              /\ StageNames(pipelines', stages', ret'.value)
                    = <<"Optimization", "Mapping", "Final Optimization">>
              /\ StagePassClasses(pipelines', stages', instances', ret'.value)
                    = << <<"GateReduction", "ConstantFolding">>,
                         <<"QubitMapperPass">>,
                         <<"CircuitDepthReduction">> >> ]_vars

\* create_pipeline("default") was called right after initialize_transpiler
\* on the new manager
DefaultConfigurationWitness ==
    /\ calls = 2
    /\ ret.call = "create_pipeline"
    /\ ret.arg = <<"default">>
    /\ origin[ret.value].how = "clone"
    /\ origin[origin[ret.value].of].how = "default"
    /\ DictKeys(pipeline_templates) = {"default"}
    /\ DictKeys(pass_classes) = BuiltinClasses
    /\ Len(pipelines[ret.value].stages) = 3

\* ------------------------------------------------------------------------
\* Properties of the cancellation scan
\* ------------------------------------------------------------------------

\* the indices a left-to-right scan from i drops: i and i + 1 when the two
\* operations cancel, and the scan goes on at i + 2; nothing at i otherwise,
\* and the scan goes on at i + 1
RECURSIVE ScanDrops(_, _)
ScanDrops(ops, i) ==
    IF i >= Len(ops) THEN {}
    ELSE IF Cancels(ops, i, i + 1) THEN {i, i + 1} \cup ScanDrops(ops, i + 2)
    ELSE ScanDrops(ops, i + 1)

\* a..b is a maximal run of operations of one name on one qubit expression
MaximalRun(ops, a, b) ==
    /\ a <= b
    /\ \A i \in a..b : /\ ops[i].name = ops[a].name
                       /\ ops[i].qubits = ops[a].qubits
    /\ a > 1 => ~( /\ ops[a - 1].name = ops[a].name
                   /\ ops[a - 1].qubits = ops[a].qubits )
    /\ b < Len(ops) => ~( /\ ops[b + 1].name = ops[a].name
                         /\ ops[b + 1].qubits = ops[a].qubits )

\* C21: cancel_adjacent_gates scans the operations from left to right; at
\* index i it drops operations i and i+1 exactly when both have the same name,
\* one of h, x, y, z, and equal qubits, and goes on at i+2; every other
\* operation is kept.  So a maximal run of k identical self-inverse gates on
\* one qubit expression leaves k mod 2 of them, and an operation of any other
\* name is never removed.
ScanCancellation ==
    outcome.call = "cancel_adjacent_gates" =>
        LET ops  == given.operations
            kept == (1..Len(ops)) \ ScanDrops(ops, 1)
        IN  /\ circuit.operations = KeepAt(ops, kept, 1)
            /\ \A a \in 1..Len(ops) : \A b \in a..Len(ops) :
                  MaximalRun(ops, a, b) =>
                      Cardinality(kept \cap (a..b))
                          = IF ops[a].name \in SelfInverse
                            THEN (b - a + 1) % 2
                            ELSE b - a + 1
            /\ \A i \in 1..Len(ops) :
                  ops[i].name \notin SelfInverse => i \in kept
            /\ Len(circuit.operations)
                  >= Cardinality({i \in 1..Len(ops) :
                                     ops[i].name \notin SelfInverse})

\* of h q[0]; h q[0]; cx q[0],q[1] the scan dropped the pair and kept the cx
ScanCancellationWitness ==
    /\ outcome.call = "cancel_adjacent_gates"
    /\ given.operations = <<OpH0, OpH0, OpCx>>
    /\ circuit.operations = <<OpCx>>

\* ------------------------------------------------------------------------
\* Properties of the order of the operations
\* ------------------------------------------------------------------------

\* a is b with some of its elements left out, the others in their order:
\* each element of a is matched with the first element of b that can take it
RECURSIVE IsSubsequence(_, _)
IsSubsequence(a, b) ==
    IF a = <<>> THEN TRUE
    ELSE IF b = <<>> THEN FALSE
    ELSE IF Head(a) = Head(b) THEN IsSubsequence(Tail(a), Tail(b))
    ELSE IsSubsequence(a, Tail(b))

\* C22: no optimization step reorders or adds operations.  After
\* cancel_adjacent_gates, and after optimize_circuit and the transformations
\* of each of its levels, the operations are a subsequence of the operations
\* given, in the same relative order.
OperationsSubsequence ==
    /\ outcome.call \in {"cancel_adjacent_gates", "optimize_circuit"}
          => IsSubsequence(circuit.operations, given.operations)
    /\ \A level \in Levels, depth \in TargetDepths :
          IsSubsequence(ApplyLevel(given, SumSizes(given.qregs), depth,
                                   level).operations,
                        given.operations)

\* cancellation left a proper part of the operations, in their order
OperationsSubsequenceWitness ==
    /\ outcome.call = "cancel_adjacent_gates"
    /\ given.operations = <<OpX1, OpH0, OpH0>>
    /\ circuit.operations = <<OpX1>>
    /\ ApplyLevel(given, 2, <<2>>, 3).operations = <<OpX1>>

\* ------------------------------------------------------------------------
\* Properties of requires() and invalidates()
\* ------------------------------------------------------------------------

\* the passes of the run's target in list order
RunOrder ==
    IF ret.call = "Stage.run" THEN ListOrder(<<ret.target>>)
    ELSE ListOrder(pipelines[ret.target].stages)

\* the classes of the first n passes of an order that none of the later
\* ones among them declared invalidated
RECURSIVE StillValid(_, _)
StillValid(order, n) ==
    IF n = 0 THEN {}
    ELSE (StillValid(order, n - 1) \ Invalidates(ClassOf(order[n].pass)))
             \cup {ClassOf(order[n].pass)}

\* the pass at place k of the order requires a class that has not run
\* before it, or that an earlier pass declared invalidated
DependencyUnmet(order, k) ==
    ~(Requires(ClassOf(order[k].pass)) \subseteq StillValid(order, k - 1))

\* the class of the pass at place k was declared invalidated by an earlier
\* pass of the order
DeclaredInvalid(order, k) ==
    \E j \in 1..(k - 1) : ClassOf(order[k].pass) \in Invalidates(ClassOf(order[j].pass))

\* C23: requires() and invalidates() are inert.  A run of a stage or of a
\* pipeline executes the passes exactly in list order: a pass is invoked at
\* its place in the list even when a class it requires has not run before it
\* or an earlier pass declared its class invalidated, and the only exception
\* a run ends with is one a pass raised.
DependenciesInert ==
    ret.call \in {"Stage.run", "Pipeline.run"} =>
        LET order == RunOrder
            n     == IF Raising(order) = {} THEN Len(order)
                     ELSE Min(Raising(order))
        IN  /\ Len(ret.log) = n
            /\ \A k \in 1..n :
                  /\ ret.log[k].pass = order[k].pass
                  /\ (DependencyUnmet(order, k) \/ DeclaredInvalid(order, k))
                        => ret.log[k].stage = order[k].stage
            /\ Raising(order) = {} => ret.raised = NoException

\* a pipeline ran CopyPass, which requires MarkPass, before any MarkPass,
\* and GateReduction after MarkPass declared it invalidated
DependenciesInertWitness ==
    /\ ret.call = "Pipeline.run"
    /\ ret.raised = NoException
    /\ Len(ret.log) = 3
    /\ ClassOf(ret.log[1].pass) = "CopyPass"
    /\ ClassOf(ret.log[2].pass) = "MarkPass"
    /\ ClassOf(ret.log[3].pass) = "GateReduction"
    /\ DependencyUnmet(RunOrder, 1)
    /\ DeclaredInvalid(RunOrder, 3)

\* ------------------------------------------------------------------------
\* Properties of repeated cancellation
\* ------------------------------------------------------------------------

\* C24: cancel_adjacent_gates is idempotent.  What it returns holds no two
\* neighbours of one name in h, x, y, z on the same qubits, so a second
\* application to its own result changes nothing, also when a removed pair
\* brought two gates that cancel next to each other.
CancelIdempotent ==
    outcome.call = "cancel_adjacent_gates" =>
        /\ \A i \in 1..(Len(circuit.operations) - 1) :
              ~Cancels(circuit.operations, i, i + 1)
        /\ cancel_adjacent_gates(circuit) = circuit

\* ------------------------------------------------------------------------
\* Properties of the parser on gate definitions
\* ------------------------------------------------------------------------

\* the text from token i on without its gate definitions: every match of
\* the gate pattern, from the word gate to the closing brace, is left out
RECURSIVE WithoutGates(_, _)
WithoutGates(s, i) ==
    IF i > Len(s) THEN <<>>
    ELSE IF MatchGate(s, i).ok THEN WithoutGates(s, MatchGate(s, i).end + 1)
    ELSE <<s[i]>> \o WithoutGates(s, i + 1)

\* C25: parse_qasm records the statements of a gate definition body only in
\* the body field of that definition: whatever the number of statements of
\* the body, none of them appears in the operations, and the operation after
\* the closing brace is not lost.  The operations are those of the text
\* outside the gate definitions.
GateBodyOnlyInDefinition ==
    (qpc # "source" /\ source.readable) =>
        parsed.operations
            = ParseContent(WithoutGates(source.content, 1)).operations

\* ------------------------------------------------------------------------
\* Properties of the options of a run
\* ------------------------------------------------------------------------

\* C26: during one run of a pipeline every pass of every stage receives the
\* same options mapping, whether the caller passed None, an empty mapping or
\* a mapping with entries: what a pass adds to options is there for every
\* later pass of the run, the passes of later stages included.
OptionsShared ==
    ret.call = "Pipeline.run" =>
        \A j \in 1..Len(ret.log) : \A k \in j..Len(ret.log) :
            /\ ret.log[k].options = ret.log[j].options
            /\ ClassOf(ret.log[j].pass) = "MarkPass"
                  => "MarkPass" \in ret.dicts[ret.log[k].options]

\* ------------------------------------------------------------------------
\* Properties of the frame of the optimization functions
\* ------------------------------------------------------------------------

\* version, includes, qregs, cregs and gate_definitions of a are those of b
SameFrame(a, b) ==
    /\ a.version = b.version
    /\ a.includes = b.includes
    /\ a.qregs = b.qregs
    /\ a.cregs = b.cregs
    /\ a.gate_definitions = b.gate_definitions

\* C27: the optimization functions change only operations and
\* optimization_stats.  cancel_adjacent_gates, and optimize_circuit at every
\* level, leave version, includes, qregs, cregs and gate_definitions of the
\* IR as they were, and they return the very object they were given: the
\* caller's IR, changed in place.
FrameAndIdentity ==
    outcome.call \in {"cancel_adjacent_gates", "optimize_circuit"} =>
        /\ SameFrame(circuit, given)
        /\ outcome.returned
        /\ outcome.value = 1

\* ------------------------------------------------------------------------
\* Properties of the structure of clones
\* ------------------------------------------------------------------------

\* the stage list of pipeline pid and the pass list of each of its stages
Structure(pls, sts, pid) ==
    [k \in 1..Len(pls[pid].stages) |->
        [stage |-> pls[pid].stages[k], passes |-> sts[pls[pid].stages[k]].passes]]

\* the step adds a stage to pipeline pid or a pass to one of its stages
AddsTo(pid) ==
    \/ Called("create_stage") /\ ret'.target = pid
    \/ Called("add_pass") /\ ret'.target \in Range(pipelines[pid].stages)

\* C28: clones are structurally isolated in both directions.  Adding a stage
\* to a pipeline that create_pipeline made from a template, or a pass to one
\* of its stages, changes neither the stage list of the template nor the
\* pass list of any stage of the template; and a stage or a pass added to
\* the template after the cloning does not appear in the clone.
CloneStructureIsolated ==
    [][ \A q \in 1..Len(pipelines) :
           origin[q].how = "clone" =>
              /\ AddsTo(q) =>
                    Structure(pipelines', stages', origin[q].of)
                        = Structure(pipelines, stages, origin[q].of)
              /\ AddsTo(origin[q].of) =>
                    Structure(pipelines', stages', q)
                        = Structure(pipelines, stages, q) ]_vars

\* a pass was added to the first stage of a clone, and that stage of the
\* template still has the passes it had
CloneStructureIsolatedWitness ==
    /\ ret.call = "add_pass"
    /\ \E q \in 1..Len(pipelines) :
          /\ origin[q].how = "clone"
          /\ pipelines[q].stages # <<>>
          /\ ret.target = pipelines[q].stages[1]
          /\ stages[ret.target].passes
                = Append(stages[pipelines[origin[q].of].stages[1]].passes,
                         ret.pass)

\* ------------------------------------------------------------------------
\* Properties of repeated initialization
\* ------------------------------------------------------------------------

\* initialize_transpiler has been called before
Initialized == \E q \in 1..Len(origin) : origin[q].how = "default"

\* C29: get_pass_manager() and initialize_transpiler() always return the one
\* manager object, and initialize_transpiler may be called any number of
\* times: a second call leaves the sets of registered pass names and of
\* template names as the first left them, and no call removes or replaces a
\* pass class or a template registered under a name that is not a built-in
\* one.
InitializeRepeatable ==
    /\ [](ret.call \in {"get_pass_manager", "initialize_transpiler"}
             => ret.raised = NoExc /\ ret.value = "_pass_manager")
    /\ [][ Called("initialize_transpiler")
           => /\ DictKeys(pass_classes) \subseteq DictKeys(pass_classes')
              /\ DictKeys(pipeline_templates)
                    \subseteq DictKeys(pipeline_templates')
              /\ \A name \in DictKeys(pass_classes) \ BuiltinClasses :
                    ManagerGetPassClass(pass_classes', name)
                        = ManagerGetPassClass(pass_classes, name)
              /\ \A name \in DictKeys(pipeline_templates) \ {"default"} :
                    GetPipelineTemplate(pipeline_templates', name)
                        = GetPipelineTemplate(pipeline_templates, name)
              /\ Initialized
                    => /\ DictKeys(pass_classes') = DictKeys(pass_classes)
                       /\ DictKeys(pipeline_templates')
                             = DictKeys(pipeline_templates) ]_vars

\* initialize_transpiler was called a second time after a caller had
\* registered a class of its own, and the class is still registered
InitializeRepeatableWitness ==
    /\ ret.call = "initialize_transpiler"
    /\ Cardinality({q \in 1..Len(origin) : origin[q].how = "default"}) = 2
    /\ ManagerGetPassClass(pass_classes, "MarkPass") = <<"MarkPass">>
    /\ DictKeys(pass_classes) = BuiltinClasses \cup {"MarkPass"}
    /\ DictKeys(pipeline_templates) = {"default"}

\* ------------------------------------------------------------------------
\* Properties of the keys of the registries
\* ------------------------------------------------------------------------

\* every key of the registry is the __name__ of the class under it, and no
\* key occurs twice
KeyedByName(d) ==
    \A i \in 1..Len(d) :
        /\ d[i][1] = ClassName(d[i][2])
        /\ \A j \in 1..Len(d) : d[j][1] = d[i][1] => j = i

\* the class of a module that load_passes_from_module registers last under
\* the name, <<>> when it registers none under it
LastLoaded(mod, name) ==
    LET S == {i \in 1..Len(mod.attrs) :
                 /\ IsPassClass(mod.attrs[i])
                 /\ mod.attrs[i] \notin BaseClasses
                 /\ ClassName(mod.attrs[i]) = name}
    IN  IF mod.import = "ok" /\ S # {} THEN <<mod.attrs[Max(S)]>> ELSE <<>>

\* what the registry of the manager answers for a name after a step: the
\* class the step registered under the name, what it answered before otherwise
ManagerAnswerAfter(name) ==
    IF Called("PassManager.register_pass") /\ ClassName(ret'.cls) = name
    THEN <<ret'.cls>>
    ELSE IF Called("load_passes_from_module")
            /\ LastLoaded(ret'.module, name) # <<>>
    THEN LastLoaded(ret'.module, name)
    ELSE IF Called("initialize_transpiler") /\ name \in BuiltinClasses
    THEN <<name>>
    ELSE ManagerGetPassClass(pass_classes, name)

\* the same for the registry of pipeline pid, which may be new in the step
PipelineAnswerAfter(pid, name) ==
    IF /\ Called("Pipeline.register_pass")
       /\ ret'.target = pid
       /\ ClassName(ret'.cls) = name
    THEN <<ret'.cls>>
    ELSE IF pid <= Len(pipelines) THEN PipelineGetPassClass(pipelines, pid, name)
    ELSE IF ClonesTemplate
    THEN PipelineGetPassClass(pipelines,
             GetPipelineTemplate(pipeline_templates, ret'.arg[1]), name)
    ELSE IF Called("initialize_transpiler") /\ name \in BuiltinClasses
    THEN <<name>>
    ELSE <<>>

\* C30: the registries are keyed by class name, the last writer wins.
\* After any sequence of register_pass, load_passes_from_module,
\* register_pipeline_template and create_pipeline calls every key of a pass
\* registry is the __name__ of the class under it; registering a second
\* class of a registered name replaces the first; get_pass_class(name)
\* answers the class registered last under the name, None when there was
\* none.
RegistriesKeyedByName ==
    /\ [](/\ KeyedByName(pass_classes)
          /\ \A pid \in 1..Len(pipelines) :
                KeyedByName(pipelines[pid].registered_passes)
          /\ calls = 0 => \A name \in AllClassNames :
                              ManagerGetPassClass(pass_classes, name) = <<>>)
    /\ [][ \A name \in AllClassNames :
             /\ ManagerGetPassClass(pass_classes', name)
                   = ManagerAnswerAfter(name)
             /\ \A pid \in 1..Len(pipelines') :
                   PipelineGetPassClass(pipelines', pid, name)
                       = PipelineAnswerAfter(pid, name) ]_vars

\* a second class named MarkPass was registered with the manager and took
\* the place of the first
RegistriesKeyedByNameWitness ==
    /\ ret.call = "PassManager.register_pass"
    /\ ret.cls = "other.MarkPass"
    /\ ret.replaced = <<"MarkPass">>
    /\ ManagerGetPassClass(pass_classes, "MarkPass") = <<"other.MarkPass">>
    /\ DictKeys(pass_classes) = {"MarkPass"}

=============================================================================
